---- MODULE Spec2Model ----
(***************************************************************************)
(* Model of the speed / cost / emissions core of slow_steaming_engine:     *)
(* utils/optimization.py, utils/emissions.py and models/vessel.py.         *)
(*                                                                         *)
(* Numbers.  The program computes in IEEE doubles.  The model computes in  *)
(* exact rationals, normalised, so that equalities are the mathematical    *)
(* ones ("within numerical tolerance" of the doubles).  A division by zero  *)
(* of a numpy double gives                                                 *)
(* inf or nan; both are the single value NonFinite (d = 0), which every    *)
(* arithmetic operator propagates and every comparison answers FALSE on.   *)
(***************************************************************************)
EXTENDS Integers, Sequences, FiniteSets, TLC

VARIABLES op, args, result, ret, session

vars == <<op, args, result, ret, session>>

----------------------------------------------------------------------------
(* Exact rational arithmetic standing for the program's float arithmetic.  *)
(* A finite value is w + n/d with w an integer, 0 <= n < d and n/d in      *)
(* lowest terms (equal values are equal records); keeping the whole part   *)
(* apart keeps money amounts inside 32-bit integers.                       *)

(* Every operator binds its operands once (x \in {a}) before it computes   *)
(* with them, so that a nested expression evaluates each operand once.     *)

Abs(x) == IF x < 0 THEN -x ELSE x

\* the element of a singleton
Val(S) == CHOOSE v \in S : TRUE

RECURSIVE GCD(_, _)
GCD(a, b) == IF b = 0 THEN a ELSE Val({GCD(b, m) : m \in {a % b}})

NonFinite == [w |-> 0, n |-> 0, d |-> 0]

IsFinite(a) == a.d # 0

\* p / q for integers p and q, q > 0
FracV(p, q) ==
    Val({[w |-> p \div q, n |-> (p % q) \div g, d |-> q \div g] :
         g \in {GCD(p % q, q)}})

\* the value num / den, den # 0
Frac(num, den) ==
    Val({FracV(IF q < 0 THEN -p ELSE p, Abs(q)) : p \in {num}, q \in {den}})

I(k) == [w |-> k, n |-> 0, d |-> 1]

RAddV(x, y, g) ==
    Val({[w |-> x.w + y.w + f.w, n |-> f.n, d |-> f.d] :
         f \in {Frac(x.n * (y.d \div g) + y.n * (x.d \div g),
                     (x.d \div g) * y.d)}})

RAdd(a, b) ==
    Val({IF ~IsFinite(x) \/ ~IsFinite(y) THEN NonFinite
         ELSE RAddV(x, y, GCD(x.d, y.d)) : x \in {a}, y \in {b}})

RNeg(a) ==
    Val({IF ~IsFinite(x) THEN NonFinite
         ELSE IF x.n = 0 THEN I(-x.w)
         ELSE [w |-> -x.w - 1, n |-> x.d - x.n, d |-> x.d] : x \in {a}})

RSub(a, b) == RAdd(a, RNeg(b))

\* k * (n / d) for an integer k
IntTimesFrac(k, n, d) ==
    Val({Val({[w |-> ((k \div g) \div (d \div g)) * n + f.w,
               n |-> f.n, d |-> f.d] :
              f \in {Frac(((k \div g) % (d \div g)) * n, d \div g)}}) :
         g \in {GCD(Abs(k), d)}})

\* the product of two finite values that are not negative
RMulV(x, y) ==
    Val({RAdd(RAdd(I(x.w * y.w), IntTimesFrac(x.w, y.n, y.d)),
              RAdd(IntTimesFrac(y.w, x.n, x.d),
                   Frac((x.n \div g1) * (y.n \div g2),
                        (x.d \div g2) * (y.d \div g1)))) :
         g1 \in {GCD(x.n, y.d)}, g2 \in {GCD(y.n, x.d)}})

\* the magnitude of a finite value
Mag(a) == Val({IF x.w < 0 THEN RNeg(x) ELSE x : x \in {a}})

\* the product of the magnitudes, with the sign of the product
RMul(a, b) ==
    Val({IF ~IsFinite(x) \/ ~IsFinite(y) THEN NonFinite
         ELSE IF x.n = 0 /\ y.n = 0 THEN I(x.w * y.w)
         ELSE Val({IF (x.w < 0) # (y.w < 0) THEN RNeg(m) ELSE m :
                   m \in {Val({RMulV(p, q) : p \in {Mag(x)}, q \in {Mag(y)}})}}) :
         x \in {a}, y \in {b}})

\* a / b with numpy semantics: a zero divisor gives inf or nan, not an error
RDiv(a, b) ==
    Val({IF ~IsFinite(x) \/ ~IsFinite(y) \/ (y.w = 0 /\ y.n = 0) THEN NonFinite
         ELSE RMul(x, Frac(y.d, y.w * y.d + y.n)) : x \in {a}, y \in {b}})

\* a < b; FALSE as soon as one side is not finite (a comparison with nan)
RLt(a, b) ==
    \E x \in {a}, y \in {b} :
        /\ IsFinite(x)
        /\ IsFinite(y)
        /\ \/ x.w < y.w
           \/ /\ x.w = y.w
              /\ \E g \in {GCD(x.d, y.d)} :
                    x.n * (y.d \div g) < y.n * (x.d \div g)

RLe(a, b) == \E x \in {a}, y \in {b} : IsFinite(x) /\ IsFinite(y) /\ ~RLt(y, x)

RPow3(a) == Val({RMul(x, RMul(x, x)) : x \in {a}})

\* the least integer >= a
RCeil(a) == Val({IF x.n = 0 THEN x.w ELSE x.w + 1 : x \in {a}})

\* An exception raised by the call.  The arguments of the functions below are
\* Python numbers (widget values, JSON or DataFrame.to_dict records), whose
\* division by zero raises ZeroDivisionError; at is the line that raises
Raise(e, at) == [status |-> "error", error |-> e, at |-> at]

Returns(v) == [status |-> "ok", value |-> v]

\* Python's None
None == [none |-> TRUE]

----------------------------------------------------------------------------
(* dict.get(key, default)                                                  *)

Get(d, k, default) == IF k \in DOMAIN d THEN d[k] ELSE default

----------------------------------------------------------------------------
(* utils/optimization.py                                                   *)

calculate_fuel_consumption_linear(speed, vessel_data) ==
    LET design_speed == Get(vessel_data, "design_speed", I(20))
        design_consumption == Get(vessel_data, "design_consumption", I(180))
    IN  RMul(design_consumption, RDiv(speed, design_speed))

calculate_fuel_consumption(speed, vessel_data) ==
    LET design_speed == Get(vessel_data, "design_speed", I(20))
        design_consumption == Get(vessel_data, "design_consumption", I(180))
    IN  RMul(design_consumption, RPow3(RDiv(speed, design_speed)))

default_emission_factors ==
    [CO2 |-> 3114000, SOx |-> 54000, NOx |-> 57000]

calculate_emissions_low_sulphur(fuel_consumption) ==
    [t \in {"CO2", "SOx", "NOx"} |->
        RMul(fuel_consumption,
             Frac(IF t = "SOx" THEN 10000 ELSE default_emission_factors[t],
                  1000000))]

calculate_emissions(fuel_consumption) ==
    [t \in DOMAIN default_emission_factors |->
        RMul(fuel_consumption, Frac(default_emission_factors[t], 1000000))]

calculate_cost(fuel_consumption, fuel_price, transit_time, vessel_day_cost) ==
    LET fuel_cost == RMul(fuel_consumption, fuel_price)
        time_cost == RMul(transit_time, vessel_day_cost)
    IN  RAdd(fuel_cost, time_cost)


\* objective_function (speed[0] is a numpy double: a zero speed gives
\* inf / nan, never an exception)
objective_function(speed_value, vessel_data, route_distance, fuel_price, vessel_day_cost) ==
    LET transit_time == RDiv(route_distance, RMul(speed_value, I(24)))
        daily_fuel == calculate_fuel_consumption(speed_value, vessel_data)
        total_fuel == RMul(daily_fuel, transit_time)
        fuel_cost == RMul(total_fuel, fuel_price)
        time_cost == RMul(transit_time, vessel_day_cost)
    IN  RAdd(fuel_cost, time_cost)

(***************************************************************************)
(* scipy.optimize.minimize(objective_function, [x0], bounds=[(lb, ub)],    *)
(* method='L-BFGS-B'), as called at optimization.py:106.  L-BFGS-B is a    *)
(* projected descent: x0 is clipped into the bounds, the gradient is a     *)
(* finite difference (forward; backward at the upper bound), every iterate *)
(* lowers the objective, and the search stops                              *)
(*   - converged (success), when the projected gradient vanishes or no     *)
(*     feasible step lowers the objective;                                 *)
(*   - not converged (success = FALSE), when the line search fails because *)
(*     the objective is not finite where it steps, or after maxiter        *)
(*     iterations.                                                         *)
(* The model searches on the grid of speeds k / GridDen, one cell per      *)
(* iteration.  Where the line search fails, the point scipy hands back is  *)
(* one of the iterates so far; which one is L-BFGS-B's business, so the    *)
(* model allows each.  lb > ub makes scipy raise ValueError: no outcome.   *)
(***************************************************************************)
GridDen == 2

maxiter == 15000

Clip(x, lb, ub) ==
    Val({IF RLt(v, lb) THEN lb ELSE IF RLt(ub, v) THEN ub ELSE v : v \in {x}})

\* the points a descent from x visits towards a bound, n cells away, each
\* with its objective value; sgn is 1 (towards ub) or -1 (towards lb)
Chain(a, x, lb, ub, sgn, n) ==
    [i \in 0..n |->
        Val({[x |-> p,
              f |-> objective_function(p, a.vessel_data, a.route_distance,
                                       a.fuel_price, a.vessel_day_cost)] :
             p \in {Clip(RAdd(x, Frac(sgn * i, GridDen)), lb, ub)}})]

\* the descent along a chain: it goes on while the objective strictly falls
DescentFrom(c, n, j) ==
    IF j < n /\ ~IsFinite(c[j + 1].f)
    THEN {[x |-> c[i].x, success |-> FALSE] : i \in 0..j}
    ELSE IF j > maxiter THEN {[x |-> c[maxiter].x, success |-> FALSE]}
    ELSE {[x |-> c[j].x, success |-> TRUE]}

Descent(c, n) ==
    UNION {DescentFrom(c, n,
                       IF stop = {} THEN n
                       ELSE (CHOOSE i \in stop : \A k \in stop : i <= k) - 1) :
           stop \in {{i \in 1..n : ~RLt(c[i].f, c[i - 1].f)}}}

\* a minimizer that hands back its start point
minimize_without_descent(a, x0, lb, ub) ==
    IF RLt(ub, lb) THEN {} ELSE {[x |-> Clip(x0, lb, ub), success |-> TRUE]}

minimize(a, x0, lb, ub) ==
    IF RLt(ub, lb) THEN {}
    ELSE
    LET x == Clip(x0, lb, ub)
        h == Frac(1, GridDen)
        nR == RCeil(RDiv(RSub(ub, x), h))
        nL == RCeil(RDiv(RSub(x, lb), h))
        f(s) == objective_function(s, a.vessel_data, a.route_distance,
                                   a.fuel_price, a.vessel_day_cost)
        fx == f(x)
        fr == f(Clip(RAdd(x, h), lb, ub))
        fl == f(Clip(RSub(x, h), lb, ub))
        canR == nR > 0
        canL == nL > 0
        \* sign of the finite-difference gradient at x
        gneg == canR /\ RLt(fr, fx)
        gpos == IF canR THEN RLt(fx, fr) ELSE canL /\ RLt(fl, fx)
        gnan == IF canR THEN ~IsFinite(fr) ELSE canL /\ ~IsFinite(fl)
    IN  IF ~IsFinite(fx) \/ gnan THEN {[x |-> x, success |-> FALSE]}
        ELSE IF gneg THEN Descent(Chain(a, x, lb, ub, 1, nR), nR)
        ELSE IF gpos /\ canL THEN Descent(Chain(a, x, lb, ub, -1, nL), nL)
        ELSE {[x |-> x, success |-> TRUE]}

\* optimization.py:108-118: the voyage at the speed the minimizer returned;
\* result.success is never read
optimum_point(res, vessel_data, route_distance, fuel_price, vessel_day_cost) ==
    LET optimal_speed == res.x
        transit_time == RDiv(route_distance, RMul(optimal_speed, I(24)))
        daily_fuel == calculate_fuel_consumption(optimal_speed, vessel_data)
        total_fuel == RMul(daily_fuel, transit_time)
        emissions == calculate_emissions(total_fuel)
        fuel_cost == RMul(total_fuel, fuel_price)
        time_cost == RMul(transit_time, vessel_day_cost)
        total_cost == RAdd(fuel_cost, time_cost)
    IN  [optimal_speed |-> optimal_speed,
         transit_time |-> transit_time,
         daily_fuel_consumption |-> daily_fuel,
         total_fuel_consumption |-> total_fuel,
         fuel_cost |-> fuel_cost,
         time_cost |-> time_cost,
         total_cost |-> total_cost,
         emissions |-> emissions]

design_comparison_no_time_cost(vessel_data, route_distance, fuel_price, vessel_day_cost) ==
    LET design_speed == Get(vessel_data, "design_speed", I(20))
        design_transit_time == RDiv(route_distance, RMul(design_speed, I(24)))
        design_daily_fuel == calculate_fuel_consumption(design_speed, vessel_data)
        design_total_fuel == RMul(design_daily_fuel, design_transit_time)
    IN  [design_speed |-> design_speed,
         design_transit_time |-> design_transit_time,
         design_fuel_consumption |-> design_total_fuel,
         design_cost |-> RMul(design_total_fuel, fuel_price),
         design_emissions |-> calculate_emissions(design_total_fuel)]

\* optimization.py:120-129 and 149-155: the same voyage at the design speed
design_comparison(vessel_data, route_distance, fuel_price, vessel_day_cost) ==
    LET design_speed == Get(vessel_data, "design_speed", I(20))
        design_transit_time == RDiv(route_distance, RMul(design_speed, I(24)))
        design_daily_fuel == calculate_fuel_consumption(design_speed, vessel_data)
        design_total_fuel == RMul(design_daily_fuel, design_transit_time)
        design_emissions == calculate_emissions(design_total_fuel)
        design_fuel_cost == RMul(design_total_fuel, fuel_price)
        design_time_cost == RMul(design_transit_time, vessel_day_cost)
        design_total_cost == RAdd(design_fuel_cost, design_time_cost)
    IN  [design_speed |-> design_speed,
         design_transit_time |-> design_transit_time,
         design_fuel_consumption |-> design_total_fuel,
         design_cost |-> design_total_cost,
         design_emissions |-> design_emissions]

\* optimization.py:131-158: the savings and the dictionary returned
optimization_result(res, vessel_data, route_distance, fuel_price, vessel_day_cost) ==
    LET o == optimum_point(res, vessel_data, route_distance, fuel_price,
                           vessel_day_cost)
        c == design_comparison(vessel_data, route_distance, fuel_price,
                               vessel_day_cost)
        fuel_savings == RSub(c.design_fuel_consumption, o.total_fuel_consumption)
        cost_savings == RSub(c.design_cost, o.total_cost)
        co2_reduction == RSub(c.design_emissions["CO2"], o.emissions["CO2"])
    IN  [optimal_speed |-> o.optimal_speed,
         transit_time |-> o.transit_time,
         daily_fuel_consumption |-> o.daily_fuel_consumption,
         total_fuel_consumption |-> o.total_fuel_consumption,
         fuel_cost |-> o.fuel_cost,
         time_cost |-> o.time_cost,
         total_cost |-> o.total_cost,
         emissions |-> o.emissions,
         fuel_savings |-> fuel_savings,
         cost_savings |-> cost_savings,
         co2_reduction |-> co2_reduction,
         comparison |-> c]

\* optimization.py:99-103: the initial guess and the bounds handed to minimize
initial_speed(vessel_data) ==
    RMul(Get(vessel_data, "design_speed", I(20)), Frac(8, 10))

\* np.arange(start, stop, step): ceil((stop - start) / step) values
\* start + i * step
arange(start, stop, step) ==
    LET len == RCeil(RDiv(RSub(stop, start), step))
    IN  [i \in 1..(IF len > 0 THEN len ELSE 0) |->
            RAdd(start, RMul(I(i - 1), step))]

\* a row whose total cost leaves the time cost out
profile_row_without_time_cost(speed, vessel_data, route_distance, fuel_price, vessel_day_cost) ==
    LET transit_time == RDiv(route_distance, RMul(speed, I(24)))
        daily_fuel == calculate_fuel_consumption(speed, vessel_data)
        total_fuel == RMul(daily_fuel, transit_time)
        emissions == calculate_emissions(total_fuel)
        fuel_cost == RMul(total_fuel, fuel_price)
        time_cost == RMul(transit_time, vessel_day_cost)
    IN  [speed |-> speed,
         transit_time |-> transit_time,
         daily_fuel |-> daily_fuel,
         total_fuel |-> total_fuel,
         fuel_cost |-> fuel_cost,
         time_cost |-> time_cost,
         total_cost |-> fuel_cost,
         co2_emissions |-> emissions["CO2"],
         sox_emissions |-> emissions["SOx"],
         nox_emissions |-> emissions["NOx"]]

\* optimization.py:179-201: one row of the profile
profile_row(speed, vessel_data, route_distance, fuel_price, vessel_day_cost) ==
    LET transit_time == RDiv(route_distance, RMul(speed, I(24)))
        daily_fuel == calculate_fuel_consumption(speed, vessel_data)
        total_fuel == RMul(daily_fuel, transit_time)
        emissions == calculate_emissions(total_fuel)
        fuel_cost == RMul(total_fuel, fuel_price)
        time_cost == RMul(transit_time, vessel_day_cost)
        total_cost == RAdd(fuel_cost, time_cost)
    IN  [speed |-> speed,
         transit_time |-> transit_time,
         daily_fuel |-> daily_fuel,
         total_fuel |-> total_fuel,
         fuel_cost |-> fuel_cost,
         time_cost |-> time_cost,
         total_cost |-> total_cost,
         co2_emissions |-> emissions["CO2"],
         sox_emissions |-> emissions["SOx"],
         nox_emissions |-> emissions["NOx"]]

generate_speed_profile(vessel_data, route_distance, fuel_price, vessel_day_cost, min_speed, max_speed, step) ==
    LET speeds == arange(min_speed, RAdd(max_speed, step), step)
    IN  [i \in DOMAIN speeds |->
            profile_row(speeds[i], vessel_data, route_distance, fuel_price,
                        vessel_day_cost)]

----------------------------------------------------------------------------
(* models/vessel.py                                                        *)

\* x ** (1/3) is irrational in general: the value is kept as the number
\* whose cube is x
CubeRoot(x) == [cube |-> x]

\* Vessel.__init__ and calculate_derived_parameters
Vessel(data) ==
    LET year_built == Get(data, "year_built", 2010)
        design_speed == Get(data, "design_speed", I(20))
        optimal_load_min == 70
        optimal_load_max == 85
    IN  [name |-> Get(data, "name", "Unknown Vessel"),
         type |-> Get(data, "type", "Container Ship"),
         length |-> Get(data, "length", I(300)),
         beam |-> Get(data, "beam", I(40)),
         draft |-> Get(data, "draft", Frac(29, 2)),
         deadweight |-> Get(data, "deadweight", I(100000)),
         engine_type |-> Get(data, "engine_type", "Unknown"),
         max_speed |-> Get(data, "max_speed", I(25)),
         max_power |-> Get(data, "max_power", I(68000)),
         design_speed |-> design_speed,
         design_consumption |-> Get(data, "design_consumption", I(180)),
         year_built |-> year_built,
         specific_fuel_consumption |->
            IF year_built >= 2015 THEN 175
            ELSE IF year_built >= 2000 THEN 185 ELSE 195,
         optimal_load_min |-> optimal_load_min,
         optimal_load_max |-> optimal_load_max,
         optimal_speed_min |->
            CubeRoot(RMul(RPow3(design_speed), Frac(optimal_load_min, 100))),
         optimal_speed_max |->
            CubeRoot(RMul(RPow3(design_speed), Frac(optimal_load_max, 100)))]

Vessel_get_fuel_consumption_square(self, speed) ==
    LET r == RDiv(speed, self.design_speed)
    IN  RMul(self.design_consumption, RMul(r, r))

\* Vessel.get_fuel_consumption
Vessel_get_fuel_consumption(self, speed) ==
    RMul(self.design_consumption, RPow3(RDiv(speed, self.design_speed)))

\* a speed is a rational, or a cube root kept by its cube (optimal_speed_min)
IsRoot(speed) == "cube" \in DOMAIN speed

\* the engine load against the design speed instead of the maximum speed
Vessel_get_engine_load_of_design_speed(self, speed) ==
    IF self.design_speed = I(0) THEN Raise("ZeroDivisionError", "vessel.py:74")
    ELSE Returns(RMul(I(100),
                      IF IsRoot(speed)
                      THEN RDiv(speed.cube, RPow3(self.design_speed))
                      ELSE RPow3(RDiv(speed, self.design_speed))))

\* Vessel.get_engine_load: 100 * (speed / self.max_speed) ** 3 on Python
\* numbers; (r / m) ** 3 of a cube root r is r ** 3 / m ** 3
Vessel_get_engine_load(self, speed) ==
    IF self.max_speed = I(0) THEN Raise("ZeroDivisionError", "vessel.py:74")
    ELSE Returns(RMul(I(100),
                      IF IsRoot(speed)
                      THEN RDiv(speed.cube, RPow3(self.max_speed))
                      ELSE RPow3(RDiv(speed, self.max_speed))))

\* Vessel.is_speed_in_optimal_range
Vessel_is_speed_in_optimal_range(self, speed) ==
    LET load == Vessel_get_engine_load(self, speed)
    IN  IF load.status = "error" THEN load
        ELSE Returns(/\ RLe(I(self.optimal_load_min), load.value)
                     /\ RLe(load.value, I(self.optimal_load_max)))

\* Vessel.to_dict
Vessel_to_dict(self) ==
    [name |-> self.name,
     type |-> self.type,
     length |-> self.length,
     beam |-> self.beam,
     draft |-> self.draft,
     deadweight |-> self.deadweight,
     engine_type |-> self.engine_type,
     max_speed |-> self.max_speed,
     max_power |-> self.max_power,
     design_speed |-> self.design_speed,
     design_consumption |-> self.design_consumption,
     year_built |-> self.year_built,
     specific_fuel_consumption |-> self.specific_fuel_consumption,
     optimal_load_min |-> self.optimal_load_min,
     optimal_load_max |-> self.optimal_load_max,
     optimal_speed_min |-> self.optimal_speed_min,
     optimal_speed_max |-> self.optimal_speed_max]

----------------------------------------------------------------------------
(* utils/emissions.py                                                      *)

\* emission factors by fuel type, g per ton of fuel
emission_factors ==
    [VLSFO |-> [CO2 |-> 3114000, SOx |-> 10000, NOx |-> 57000, PM |-> 1400],
     MGO |-> [CO2 |-> 3206000, SOx |-> 2000, NOx |-> 60000, PM |-> 1000],
     LSFO |-> [CO2 |-> 3114000, SOx |-> 20000, NOx |-> 57000, PM |-> 1800],
     HFO |-> [CO2 |-> 3114000, SOx |-> 70000, NOx |-> 57000, PM |-> 2400]]

calculate_detailed_emissions_hfo_default(fuel_consumption, fuel_type) ==
    LET factors == Get(emission_factors, fuel_type, emission_factors["HFO"])
    IN  [t \in DOMAIN factors |->
            RMul(fuel_consumption, Frac(factors[t], 1000000))]

calculate_detailed_emissions(fuel_consumption, fuel_type) ==
    LET factors == Get(emission_factors, fuel_type, emission_factors["VLSFO"])
    IN  [t \in DOMAIN factors |->
            RMul(fuel_consumption, Frac(factors[t], 1000000))]

\* emissions.py:54: the default of cargo_capacity_utilization
default_utilization == Frac(7, 10)

\* emissions.py:79-90
reference_values ==
    ("Container Ship" :> Frac(115, 10)) @@ ("Bulk Carrier" :> I(7)) @@
    ("Oil Tanker" :> Frac(51, 10)) @@ ("Gas Carrier" :> Frac(89, 10)) @@
    ("General Cargo" :> Frac(153, 10))

reference_aer_container_default(vessel_data) ==
    Get(reference_values, Get(vessel_data, "type", "Container Ship"),
        Frac(115, 10))

reference_aer_of(vessel_data) ==
    Get(reference_values, Get(vessel_data, "type", "Container Ship"), I(10))

rating_of_closed(cii_ratio) ==
    Val({IF RLe(r, Frac(86, 100)) THEN "A"
         ELSE IF RLe(r, Frac(93, 100)) THEN "B"
         ELSE IF RLe(r, Frac(103, 100)) THEN "C"
         ELSE IF RLe(r, Frac(110, 100)) THEN "D"
         ELSE "E" : r \in {cii_ratio}})

\* emissions.py:95-105
rating_of(cii_ratio) ==
    Val({IF RLt(r, Frac(86, 100)) THEN "A"
         ELSE IF RLt(r, Frac(93, 100)) THEN "B"
         ELSE IF RLt(r, Frac(103, 100)) THEN "C"
         ELSE IF RLt(r, Frac(110, 100)) THEN "D"
         ELSE "E" : r \in {cii_ratio}})

\* emissions.py:74-114, once transport_work is known not to be zero
cii_result(vessel_data, co2_emissions, transport_work) ==
    Val({Val({Returns([co2_emissions |-> co2_emissions,
                       transport_work |-> transport_work,
                       aer |-> aer,
                       reference_aer |-> reference_aer_of(vessel_data),
                       cii_ratio |-> cii_ratio,
                       rating |-> rating_of(cii_ratio)]) :
              cii_ratio \in {RDiv(aer, reference_aer_of(vessel_data))}}) :
         aer \in {RDiv(RMul(co2_emissions, I(1000000)), transport_work)}})

calculate_cii_rating(vessel_data, annual_distance, annual_fuel, cargo_capacity_utilization) ==
    Val({IF transport_work = I(0)
         THEN Raise("ZeroDivisionError", "emissions.py:75")
         ELSE cii_result(vessel_data, RMul(annual_fuel, Frac(3114, 1000)),
                         transport_work) :
         transport_work \in
            {RMul(RMul(Get(vessel_data, "deadweight", I(100000)),
                       annual_distance),
                  cargo_capacity_utilization)}})

\* emissions.py:130-139, for one of the two speeds: the daily consumption
\* times the annual sailing time in days
annual_fuel(vessel_data, speed, annual_distance) ==
    RMul(calculate_fuel_consumption(speed, vessel_data),
         RDiv(annual_distance, RMul(speed, I(24))))

forecast_result_silent(cs, ps, cf, pf, ccii, pcii) ==
    Returns([current_scenario |->
                 [speed |-> cs, annual_fuel |-> cf,
                  cii_ratio |-> ccii.cii_ratio, cii_rating |-> ccii.rating],
             proposed_scenario |->
                 [speed |-> ps, annual_fuel |-> pf,
                  cii_ratio |-> pcii.cii_ratio, cii_rating |-> pcii.rating],
             savings |->
                 [fuel_savings |-> RSub(cf, pf),
                  emission_savings |->
                      RSub(ccii.co2_emissions, pcii.co2_emissions),
                  percentage_reduction |->
                      RMul(RDiv(RSub(cf, pf), cf), I(100))]])

forecast_result_of_proposed(cs, ps, cf, pf, ccii, pcii) ==
    IF cf = I(0) THEN Raise("ZeroDivisionError", "emissions.py:165")
    ELSE Returns([current_scenario |->
                 [speed |-> cs, annual_fuel |-> cf,
                  cii_ratio |-> ccii.cii_ratio, cii_rating |-> ccii.rating],
             proposed_scenario |->
                 [speed |-> ps, annual_fuel |-> pf,
                  cii_ratio |-> pcii.cii_ratio, cii_rating |-> pcii.rating],
             savings |->
                 [fuel_savings |-> RSub(cf, pf),
                  emission_savings |->
                      RSub(ccii.co2_emissions, pcii.co2_emissions),
                  percentage_reduction |->
                      RMul(RDiv(RSub(cf, pf), pf), I(100))]])

\* emissions.py:145-167: the savings and the dictionary returned, from the
\* two annual fuels cf, pf and the two CII results
forecast_result(cs, ps, cf, pf, ccii, pcii) ==
    IF cf = I(0) THEN Raise("ZeroDivisionError", "emissions.py:165")
    ELSE Returns([current_scenario |->
                 [speed |-> cs, annual_fuel |-> cf,
                  cii_ratio |-> ccii.cii_ratio, cii_rating |-> ccii.rating],
             proposed_scenario |->
                 [speed |-> ps, annual_fuel |-> pf,
                  cii_ratio |-> pcii.cii_ratio, cii_rating |-> pcii.rating],
             savings |->
                 [fuel_savings |-> RSub(cf, pf),
                  emission_savings |->
                      RSub(ccii.co2_emissions, pcii.co2_emissions),
                  percentage_reduction |->
                      RMul(RDiv(RSub(cf, pf), cf), I(100))]])

\* emissions.py:141-143: the two CII results; the first failure is the call's
forecast_scenarios(vessel_data, cs, ps, annual_distance, cf, pf) ==
    Val({IF ccii.status = "error" THEN ccii
         ELSE IF pcii.status = "error" THEN pcii
         ELSE forecast_result(cs, ps, cf, pf, ccii.value, pcii.value) :
         ccii \in {calculate_cii_rating(vessel_data, annual_distance, cf,
                                        default_utilization)},
         pcii \in {calculate_cii_rating(vessel_data, annual_distance, pf,
                                        default_utilization)}})

calculate_compliance_forecast(vessel_data, current_speed, proposed_speed, annual_distance) ==
    IF Get(vessel_data, "design_speed", I(20)) = I(0)
    THEN Raise("ZeroDivisionError", "optimization.py:22")
    ELSE IF RMul(current_speed, I(24)) = I(0)
    THEN Raise("ZeroDivisionError", "emissions.py:134")
    ELSE IF RMul(proposed_speed, I(24)) = I(0)
    THEN Raise("ZeroDivisionError", "emissions.py:135")
    ELSE Val({forecast_scenarios(vessel_data, current_speed, proposed_speed,
                                 annual_distance, cf, pf) :
              cf \in {annual_fuel(vessel_data, current_speed,
                                  annual_distance)},
              pf \in {annual_fuel(vessel_data, proposed_speed,
                                  annual_distance)}})

----------------------------------------------------------------------------
(* models/route.py                                                         *)

\* Route.__init__ and calculate_derived_parameters
Route(data) ==
    LET distance == Get(data, "distance", I(0))
        waypoints == Get(data, "waypoints", <<>>)
        number_of_waypoints == Len(waypoints)
    IN  [name |-> Get(data, "name", "Unknown Route"),
         distance |-> distance,
         waypoints |-> waypoints,
         number_of_waypoints |-> number_of_waypoints,
         avg_leg_distance |->
            IF number_of_waypoints > 1
            THEN RDiv(distance, I(number_of_waypoints - 1))
            ELSE I(0)]

\* Route.to_dict
Route_to_dict(self) ==
    [name |-> self.name,
     distance |-> self.distance,
     waypoints |-> self.waypoints,
     number_of_waypoints |-> self.number_of_waypoints,
     avg_leg_distance |-> self.avg_leg_distance]

\* WeatherData().generate_synthetic_data(route_data) then to_dict(): the
\* synthetic values are random; has_data tells whether any were generated
WeatherData_generated(route_data) ==
    [has_data |-> Get(route_data, "waypoints", <<>>) # <<>>]

----------------------------------------------------------------------------
(* utils/data_processing.py; an uploaded file is its name and the records  *)
(* read from it                                                            *)

Extensions == {".csv", ".xlsx", ".json"}

\* name.endswith(ext)
EndsWith(name, ext) == name.ext = ext

\* raise ExcType(message): the message is the list of the pieces the f-string
\* puts together
RaiseMsg(e, message, at) == [status |-> "error", error |-> e, message |-> message, at |-> at]

\* data_processing.py:84: raise ValueError(f"Unsupported file format: {name}")
unsupported_format(name) == RaiseMsg("ValueError", <<"Unsupported file format: ", name.stem \o name.ext>>, "data_processing.py:84")

\* except Exception as e: raise Exception(f"Error processing ... data: {str(e)}")
\* catches the ValueError raised inside the try block too
prepare_vessel_data(uploaded_file) ==
    IF uploaded_file = None THEN Returns(None)
    ELSE IF \E e \in Extensions : EndsWith(uploaded_file.name, e)
    THEN Returns([vessels |-> uploaded_file.records])
    ELSE RaiseMsg("Exception",
                  <<"Error processing vessel data: ">>
                      \o unsupported_format(uploaded_file.name).message,
                  "data_processing.py:87")

prepare_route_data(uploaded_file) ==
    IF uploaded_file = None THEN Returns(None)
    ELSE IF \E e \in Extensions : EndsWith(uploaded_file.name, e)
    THEN Returns([routes |-> uploaded_file.records])
    ELSE RaiseMsg("Exception",
                  <<"Error processing route data: ">>
                      \o unsupported_format(uploaded_file.name).message,
                  "data_processing.py:118")

\* load_sample_vessel_data and load_sample_route_data: the built-in samples
sample_vessel_data ==
    [vessels |->
        <<[name |-> "Example Vessel", type |-> "Container Ship",
           length |-> I(300), beam |-> I(40), draft |-> Frac(29, 2),
           deadweight |-> I(100000), engine_type |-> "MAN B&W 12K98ME-C",
           max_speed |-> I(25), max_power |-> I(68000),
           design_speed |-> I(20), design_consumption |-> I(180),
           year_built |-> 2010]>>]

sample_route_data ==
    [routes |->
        <<[name |-> "Singapore to Rotterdam", distance |-> I(8352),
           waypoints |->
              <<[name |-> "Singapore", lat |-> Frac(1264, 1000),
                 lon |-> Frac(103825, 1000)],
                [name |-> "Suez Canal", lat |-> Frac(30028, 1000),
                 lon |-> Frac(32552, 1000)],
                [name |-> "Gibraltar", lat |-> Frac(36144, 1000),
                 lon |-> Frac(-5353, 1000)],
                [name |-> "Rotterdam", lat |-> Frac(51949, 1000),
                 lon |-> Frac(4138, 1000)]>>]>>]

\* the record a selectbox label selects:
\* next((v for v in records if v.get('name') == selected), records[0]);
\* i is the position of the selected label; the label made up for a record
\* without a name is the name of no record
selected_record(records, i) ==
    LET named == {j \in DOMAIN records :
                    /\ "name" \in DOMAIN records[i]
                    /\ "name" \in DOMAIN records[j]
                    /\ records[j].name = records[i].name}
    IN  IF named = {} THEN records[1]
        ELSE records[CHOOSE j \in named : \A k \in named : j <= k]

----------------------------------------------------------------------------
(* The inputs the operations are called with.                              *)

\* vessel dictionaries; a key a dictionary lacks is read with its default
VesselDicts ==
    { [design_speed |-> I(20), design_consumption |-> I(180),
       max_speed |-> I(25)],
      [max_speed |-> I(25)],
      [design_speed |-> I(10), design_consumption |-> I(60),
       max_speed |-> I(12)] }

Distances == {I(8200), I(0)}

FuelPrices == {I(600), I(0), I(-600)}

DayRates == {I(25000), I(0)}

MinSpeeds == {I(0), I(8), I(12), I(20)}

MaxSpeeds == {I(13), I(20), I(24)}

Steps == {Frac(1, 2), I(2)}

\* the dictionaries a Vessel is built from
VesselInputs ==
    { <<>>,
      [name |-> "Test Vessel", type |-> "Container Ship", length |-> I(300),
       beam |-> I(40), draft |-> Frac(29, 2), deadweight |-> I(100000),
       engine_type |-> "MAN B&W 12K98ME-C", max_speed |-> I(25),
       max_power |-> I(68000), design_speed |-> I(20),
       design_consumption |-> I(180), year_built |-> 2010],
      [name |-> "Feeder", type |-> "General Cargo", design_speed |-> I(10),
       design_consumption |-> I(60), max_speed |-> I(12), year_built |-> 1995],
      [type |-> "Bulk Carrier", design_speed |-> I(15),
       design_consumption |-> Frac(95, 2), year_built |-> 2018] }

MaxSpeedHalves == 60

TestSpeeds == {Frac(k, 2) : k \in 0..MaxSpeedHalves}

MaxFuelHalves == 20

Fuels == {Frac(k, 2) : k \in 0..MaxFuelHalves} \cup {I(100), I(1107)}

FuelTypes == {"VLSFO", "MGO", "LSFO", "HFO", "LNG", "UNKNOWN"}

----------------------------------------------------------------------------
\* the annual fuel that gives a container ship of 100000 t deadweight,
\* sailing 1000 nm at utilization 0.7, the CII ratio r
FuelForRatio(r) == RMul(r, Frac(805000, 3114))

CiiVessels ==
    {[type |-> "Container Ship", deadweight |-> I(100000)],
     [type |-> "Bulk Carrier", deadweight |-> I(100000)],
     [type |-> "Oil Tanker"],
     [type |-> "Gas Carrier", deadweight |-> I(50000)],
     [type |-> "General Cargo", deadweight |-> I(100000)],
     [type |-> "Ferry", deadweight |-> I(100000)],
     [deadweight |-> I(0)],
     [deadweight |-> I(-100000)]}

AnnualDistances == {I(1000), I(0), I(-1000)}

\* None: the argument is left to its default
Utilizations == {None, Frac(1, 2), I(0), Frac(-7, 10)}

\* the values the manual vessel form lets through (max speed 10..35, design
\* speed 10..30), the other fields at their initial values
ManualMaxSpeeds == {I(10), I(25), I(35)}

ManualDesignSpeeds == {I(10), I(20), I(25), I(30)}

\* year built 1970..2023
ManualYears == {1970, 2010, 2023}

manual_vessel_data(max_speed, design_speed, year_built) ==
    [name |-> "Example Vessel", type |-> "Container Ship", length |-> I(300),
     beam |-> I(40), draft |-> Frac(29, 2), deadweight |-> I(100000),
     engine_type |-> "MAN B&W 12K98ME-C", max_speed |-> max_speed,
     design_speed |-> design_speed, design_consumption |-> I(180),
     year_built |-> year_built]

UploadedVesselFiles ==
    {[name |-> [stem |-> "fleet", ext |-> ".json"],
      records |-> <<[name |-> "Tanker", type |-> "Oil Tanker",
                     max_speed |-> I(16), design_speed |-> I(14)],
                    [name |-> "Stopped", max_speed |-> I(20),
                     design_speed |-> I(0)]>>],
     [name |-> [stem |-> "fleet", ext |-> ".csv"],
      records |-> <<[max_speed |-> I(12), design_speed |-> I(-14)],
                    [name |-> "Fast", max_speed |-> I(12),
                     design_speed |-> I(18)]>>],
     [name |-> [stem |-> "empty", ext |-> ".json"], records |-> <<>>],
     [name |-> [stem |-> "fleet", ext |-> ".txt"],
      records |-> <<[name |-> "Tanker", max_speed |-> I(16),
                     design_speed |-> I(14)]>>]}

ManualDistances == {I(100), I(5000)}

UploadedRouteFiles ==
    {[name |-> [stem |-> "routes", ext |-> ".json"],
      records |-> <<[name |-> "Short hop", distance |-> I(120),
                     waypoints |-> <<[name |-> "Dover", lat |-> I(51),
                                      lon |-> I(1)],
                                     [name |-> "Calais", lat |-> I(51),
                                      lon |-> I(2)]>>],
                    [name |-> "Nowhere", distance |-> I(300),
                     waypoints |-> <<[name |-> "Dover", lat |-> I(51),
                                      lon |-> I(1)]>>]>>],
     [name |-> [stem |-> "legs", ext |-> ".csv"],
      records |-> <<[name |-> "Leg 1", distance |-> I(500)]>>],
     [name |-> [stem |-> "empty", ext |-> ".json"], records |-> <<>>],
     [name |-> [stem |-> "routes", ext |-> ".txt"],
      records |-> <<[name |-> "Leg 1", distance |-> I(500)]>>]}

\* the longest waypoint list the manual tab is driven to
MaxWaypoints == 3

ForecastVessels ==
    {[type |-> "Container Ship", deadweight |-> I(100000),
      design_speed |-> I(20), design_consumption |-> I(180)],
     [type |-> "Bulk Carrier"],
     [deadweight |-> I(100000), design_speed |-> I(20),
      design_consumption |-> I(0)],
     [deadweight |-> I(0), design_speed |-> I(20),
      design_consumption |-> I(180)],
     [design_speed |-> I(0), design_consumption |-> I(180)],
     [design_speed |-> I(-20), design_consumption |-> I(180)]}

ForecastSpeeds == {I(0), I(-15), I(12), I(15), I(18), I(20)}

BandEdges == {Frac(86, 100), Frac(93, 100), Frac(103, 100), Frac(110, 100)}

AnnualFuels ==
    {FuelForRatio(r) : r \in BandEdges}
    \cup {FuelForRatio(RSub(r, Frac(1, 100000))) : r \in BandEdges}
    \cup {I(0), I(150), I(300), I(-10)}

\* the files prepare_vessel_data and prepare_route_data are handed: None (no
\* upload), and names with and without a supported extension
FileStems == {"vessel_data", "routes", "fleet.csv", "report.json"}

FileExts == {".csv", ".xlsx", ".json", ".txt", ".xls", ".JSON", ""}

FileRecords ==
    {<<>>,
     <<[name |-> "Test Vessel", type |-> "Container Ship", length |-> I(300)]>>,
     <<[name |-> "Leg 1", distance |-> I(500)],
       [name |-> "Leg 2", distance |-> I(800)]>>}

PreparedFiles ==
    {None} \cup {[name |-> [stem |-> st, ext |-> e], records |-> r] :
                   st \in FileStems, e \in FileExts, r \in FileRecords}

\* the dictionaries a Vessel is constructed from: the test fixture, a vessel
\* whose design speed is its maximum speed, the defaults, and what the upload
\* tab lets through
ConstructedSpeeds ==
    {<<I(25), I(20)>>, <<I(20), I(20)>>, <<I(20), I(23)>>, <<I(0), I(14)>>,
     <<I(20), I(0)>>, <<I(12), I(-14)>>}

ConstructedYears == {1970, 1999, 2000, 2010, 2014, 2015, 2023}

ConstructedData ==
    {<<>>, [name |-> "No year", max_speed |-> I(25), design_speed |-> I(20)]}
    \cup {[name |-> "Test Vessel", max_speed |-> ms[1], design_speed |-> ms[2],
            design_consumption |-> I(180), year_built |-> y] :
           ms \in ConstructedSpeeds, y \in ConstructedYears}

\* speed * q for a rational q
Scaled(speed, q) ==
    IF IsRoot(speed) THEN CubeRoot(RMul(speed.cube, RPow3(q)))
    ELSE RMul(speed, q)

\* a speed between two cube roots
Between(lo, hi) == CubeRoot(RDiv(RAdd(lo.cube, hi.cube), I(2)))

MaxLoadSpeed == 30

\* the speeds the load of a vessel is asked at
LoadSpeeds(self) ==
    {I(k) : k \in 0..MaxLoadSpeed}
    \cup {self.max_speed, RDiv(self.max_speed, I(2)),
          self.optimal_speed_min, self.optimal_speed_max,
          Between(self.optimal_speed_min, self.optimal_speed_max),
          Scaled(self.optimal_speed_min, Frac(9, 10)),
          Scaled(self.optimal_speed_max, Frac(11, 10))}

\* the widgets of the Speed Optimization page: fuel price 200..1500, day cost
\* 5000..100000, the two speeds, weather factor 0..30, efficiency 80..100
PageFuelPrices == {I(600)}

PageDayCosts == {I(25000)}

PageSpeedRanges == {<<I(12), I(13)>>, <<I(24), I(26)>>}

WeatherFactors == {0, 10}

EngineEfficiencies == {100, 80}

\* the widgets of the emissions page: annual distance 5000..200000, annual
\* fuel 100..50000, utilization 10..100 percent, speeds from 5 knots
PageAnnualDistances == {I(5000)}

PageAnnualFuels == {I(100), I(500)}

PageUtilizations == {I(1)}

PageForecastSpeeds == {<<I(10), I(8)>>, <<I(8), I(5)>>}

\* a new session: no vessel, no route, no results (a page treats a key it
\* misses as None), and no waypoint list before the route page's first run.
\* waypoints_in_route tells whether route_data["waypoints"] is the list object
\* of the waypoints key, as it is after "Save Route Data"
Init ==
    /\ op = "none"
    /\ args = [none |-> TRUE]
    /\ result = [none |-> TRUE]
    /\ ret = [status |-> "none"]
    /\ session = [vessel_data |-> None, route_data |-> None,
                  weather_data |-> None, waypoints |-> None,
                  waypoints_in_route |-> FALSE,
                  optimization_results |-> None, speed_profile |-> None,
                  cii_data |-> None, compliance_forecast |-> None]

\* optimize_speed(vessel_data, route_distance, fuel_price, vessel_day_cost,
\*                min_speed, max_speed)
OptimizeSpeed ==
    \E v \in VesselDicts, dist \in Distances, fp \in FuelPrices,
       dr \in DayRates, lo \in MinSpeeds, hi \in MaxSpeeds :
        LET a == [vessel_data |-> v, route_distance |-> dist,
                  fuel_price |-> fp, vessel_day_cost |-> dr,
                  min_speed |-> lo, max_speed |-> hi]
            outcomes == minimize(a, initial_speed(v), lo, hi)
        IN  /\ op = "none"
            /\ op' = "optimize_speed"
            /\ args' = a
            /\ IF outcomes = {}
               THEN /\ result' = [none |-> TRUE]
                    /\ ret' = [status |-> "error", error |-> "ValueError"]
               ELSE \E r \in outcomes :
                    /\ result' = r
                    /\ ret' = [status |-> "ok",
                               value |-> optimization_result(r, v, dist, fp, dr)]
            /\ UNCHANGED session

\* generate_speed_profile(vessel_data, route_distance, fuel_price,
\*                        vessel_day_cost, speed_range, step)
GenerateSpeedProfile ==
    \E v \in VesselDicts, dist \in Distances, fp \in FuelPrices,
       dr \in DayRates, lo \in MinSpeeds, hi \in MaxSpeeds, st \in Steps :
        /\ op = "none"
        /\ op' = "generate_speed_profile"
        /\ args' = [vessel_data |-> v, route_distance |-> dist,
                    fuel_price |-> fp, vessel_day_cost |-> dr,
                    min_speed |-> lo, max_speed |-> hi, step |-> st]
        /\ result' = [none |-> TRUE]
        /\ ret' = [status |-> "ok",
                   value |-> generate_speed_profile(v, dist, fp, dr, lo, hi, st)]
        /\ UNCHANGED session

\* Vessel(data).get_fuel_consumption(speed)
GetFuelConsumption ==
    \E data \in VesselInputs, speed \in TestSpeeds :
        /\ op = "none"
        /\ op' = "get_fuel_consumption"
        /\ args' = [data |-> data, speed |-> speed]
        /\ result' = [none |-> TRUE]
        /\ ret' = [status |-> "ok",
                   value |-> Vessel_get_fuel_consumption(Vessel(data), speed)]
        /\ UNCHANGED session

\* calculate_fuel_consumption(speed, vessel_data), on a dictionary as entered
\* or as Vessel.to_dict gives it
CalculateFuelConsumption ==
    \E data \in VesselInputs, speed \in TestSpeeds :
        \E vd \in {data, Vessel_to_dict(Vessel(data))} :
            /\ op = "none"
            /\ op' = "calculate_fuel_consumption"
            /\ args' = [speed |-> speed, vessel_data |-> vd]
            /\ result' = [none |-> TRUE]
            /\ ret' = [status |-> "ok",
                       value |-> calculate_fuel_consumption(speed, vd)]
            /\ UNCHANGED session

\* calculate_detailed_emissions(fuel_consumption, fuel_type)
CalculateDetailedEmissions ==
    \E fuel \in Fuels, ft \in FuelTypes :
        /\ op = "none"
        /\ op' = "calculate_detailed_emissions"
        /\ args' = [fuel_consumption |-> fuel, fuel_type |-> ft]
        /\ result' = [none |-> TRUE]
        /\ ret' = [status |-> "ok",
                   value |-> calculate_detailed_emissions(fuel, ft)]
        /\ UNCHANGED session

\* calculate_emissions(fuel_consumption), emission_factors left to its default
\* as optimize_speed and generate_speed_profile call it
CalculateEmissions ==
    \E fuel \in Fuels :
        /\ op = "none"
        /\ op' = "calculate_emissions"
        /\ args' = [fuel_consumption |-> fuel]
        /\ result' = [none |-> TRUE]
        /\ ret' = [status |-> "ok", value |-> calculate_emissions(fuel)]
        /\ UNCHANGED session

\* calculate_cii_rating(vessel_data, annual_distance, annual_fuel
\*                       [, cargo_capacity_utilization])
CalculateCiiRating ==
    \E v \in CiiVessels, dist \in AnnualDistances, fuel \in AnnualFuels,
       u \in Utilizations :
        /\ op = "none"
        /\ op' = "calculate_cii_rating"
        /\ args' = IF u = None
                   THEN [vessel_data |-> v, annual_distance |-> dist,
                         annual_fuel |-> fuel]
                   ELSE [vessel_data |-> v, annual_distance |-> dist,
                         annual_fuel |-> fuel,
                         cargo_capacity_utilization |-> u]
        /\ result' = [none |-> TRUE]
        /\ ret' = calculate_cii_rating(v, dist, fuel,
                     IF u = None THEN default_utilization ELSE u)
        /\ UNCHANGED session

\* calculate_compliance_forecast(vessel_data, current_speed, proposed_speed,
\*                               annual_distance)
CalculateComplianceForecast ==
    \E v \in ForecastVessels, cs \in ForecastSpeeds, ps \in ForecastSpeeds,
       dist \in AnnualDistances :
        /\ op = "none"
        /\ op' = "calculate_compliance_forecast"
        /\ args' = [vessel_data |-> v, current_speed |-> cs,
                    proposed_speed |-> ps, annual_distance |-> dist]
        /\ result' = [none |-> TRUE]
        /\ ret' = calculate_compliance_forecast(v, cs, ps, dist)
        /\ UNCHANGED session

\* Vessel(data)
ConstructVessel ==
    \E data \in ConstructedData :
        /\ op = "none"
        /\ op' = "Vessel"
        /\ args' = [data |-> data]
        /\ result' = [none |-> TRUE]
        /\ ret' = Returns(Vessel(data))
        /\ UNCHANGED session

\* Vessel(data).get_engine_load(speed)
GetEngineLoad ==
    \E data \in ConstructedData :
        \E speed \in LoadSpeeds(Vessel(data)) :
            /\ op = "none"
            /\ op' = "get_engine_load"
            /\ args' = [data |-> data, speed |-> speed]
            /\ result' = [none |-> TRUE]
            /\ ret' = Vessel_get_engine_load(Vessel(data), speed)
            /\ UNCHANGED session

\* Vessel(data).is_speed_in_optimal_range(speed)
IsSpeedInOptimalRange ==
    \E data \in ConstructedData :
        \E speed \in LoadSpeeds(Vessel(data)) :
            /\ op = "none"
            /\ op' = "is_speed_in_optimal_range"
            /\ args' = [data |-> data, speed |-> speed]
            /\ result' = [none |-> TRUE]
            /\ ret' = Vessel_is_speed_in_optimal_range(Vessel(data), speed)
            /\ UNCHANGED session

\* prepare_vessel_data(uploaded_file)
PrepareVesselData ==
    \E f \in PreparedFiles :
        /\ op = "none"
        /\ op' = "prepare_vessel_data"
        /\ args' = [uploaded_file |-> f]
        /\ result' = [none |-> TRUE]
        /\ ret' = prepare_vessel_data(f)
        /\ UNCHANGED session

\* prepare_route_data(uploaded_file)
PrepareRouteData ==
    \E f \in PreparedFiles :
        /\ op = "none"
        /\ op' = "prepare_route_data"
        /\ args' = [uploaded_file |-> f]
        /\ result' = [none |-> TRUE]
        /\ ret' = prepare_route_data(f)
        /\ UNCHANGED session

----------------------------------------------------------------------------
(* _pages/vessel_input.py                                                  *)

\* "Save Vessel Data" on the manual tab
SaveVesselData ==
    \E ms \in ManualMaxSpeeds, ds \in ManualDesignSpeeds, yr \in ManualYears :
        /\ op = "none"
        /\ op' = "save_vessel_data"
        /\ args' = manual_vessel_data(ms, ds, yr)
        /\ result' = [none |-> TRUE]
        /\ session' = [session EXCEPT !.vessel_data =
                          Vessel_to_dict(Vessel(manual_vessel_data(ms, ds, yr)))]
        /\ ret' = [status |-> "ok", message |-> "Vessel data saved successfully!"]

\* a file is uploaded (and a vessel of it selected): stored without a button
UploadVesselFile ==
    \E f \in UploadedVesselFiles :
        LET p == prepare_vessel_data(f)
        IN  /\ op = "none"
            /\ op' = "upload_vessel_file"
            /\ result' = [none |-> TRUE]
            /\ IF p.status = "error"
               THEN /\ args' = [file |-> f]
                    /\ ret' = [status |-> "error", message |-> <<"Error loading file: ">> \o p.message]
                    /\ UNCHANGED session
               ELSE IF Len(p.value.vessels) = 0
               THEN /\ args' = [file |-> f]
                    /\ ret' = [status |-> "error",
                               message |-> <<"No vessel data found in the uploaded file.">>]
                    /\ UNCHANGED session
               ELSE \E i \in DOMAIN p.value.vessels :
                    /\ args' = [file |-> f, selected |-> i]
                    /\ session' = [session EXCEPT !.vessel_data =
                          Vessel_to_dict(Vessel(selected_record(p.value.vessels, i)))]
                    /\ ret' = [status |-> "ok",
                               message |-> "Vessel data loaded successfully!"]

\* "Use Selected Sample Data"
UseSampleVessel ==
    \E i \in DOMAIN sample_vessel_data.vessels :
        /\ op = "none"
        /\ op' = "use_sample_vessel"
        /\ args' = [selected |-> i]
        /\ result' = [none |-> TRUE]
        /\ session' = [session EXCEPT !.vessel_data =
              Vessel_to_dict(Vessel(selected_record(sample_vessel_data.vessels, i)))]
        /\ ret' = [status |-> "ok",
                   message |-> "Sample vessel data loaded successfully!"]

\* "Clear Vessel Data", offered while a vessel is stored
ClearVesselData ==
    /\ op = "none"
    /\ session.vessel_data # None
    /\ op' = "clear_vessel_data"
    /\ args' = [none |-> TRUE]
    /\ result' = [none |-> TRUE]
    /\ session' = [session EXCEPT !.vessel_data = None]
    /\ ret' = [status |-> "ok", message |-> "Vessel data cleared!"]

----------------------------------------------------------------------------
(* _pages/route_optimization.py                                            *)

\* route_optimization.py:46-49 and 91-95
initial_waypoints ==
    <<[name |-> "Origin", lat |-> Frac(1264, 1000), lon |-> Frac(103825, 1000)],
      [name |-> "Destination", lat |-> Frac(51949, 1000),
       lon |-> Frac(4138, 1000)]>>

new_waypoint(n) ==
    [name |-> CASE n = 1 -> "Waypoint 1" [] n = 2 -> "Waypoint 2"
                [] n = 3 -> "Waypoint 3" [] n = 4 -> "Waypoint 4"
                [] OTHER -> "Waypoint 5",
     lat |-> I(0), lon |-> I(0)]

\* list.pop(i), i counted from 1
Pop(list, i) == [j \in 1..(Len(list) - 1) |-> IF j < i THEN list[j] ELSE list[j + 1]]

\* the waypoint list changed in place: a route saved from it holds the same
\* list object (route.py:22 and 44 keep and return it without a copy), so
\* its waypoints change with it, and its number_of_waypoints does not
waypoints_changed(s, list) ==
    [s EXCEPT !.waypoints = list,
              !.route_data = IF s.waypoints_in_route
                             THEN [@ EXCEPT !.waypoints = list]
                             ELSE @]

\* a Remove button is offered for every waypoint
remove_offered_always(waypoints, i) == TRUE

\* the Remove button of waypoint i (counted from 1) is offered
remove_offered(waypoints, i) == i - 1 > 1 \/ Len(waypoints) > 2

\* a run of the page: without a vessel it returns at once; with one it
\* creates the waypoint list when the session has none
VisitRoutePage ==
    /\ op = "none"
    /\ op' = "visit_route_page"
    /\ args' = [none |-> TRUE]
    /\ result' = [none |-> TRUE]
    /\ IF session.vessel_data = None
       THEN /\ ret' = [status |-> "warning",
                       message |-> "Please enter vessel specifications first in the Vessel Input page."]
            /\ UNCHANGED session
       ELSE /\ ret' = [status |-> "ok", message |-> "page shown"]
            /\ session' = IF session.waypoints = None
                          THEN [session EXCEPT !.waypoints = initial_waypoints]
                          ELSE session

\* the buttons of the page exist once a run has shown it
RoutePageShown == session.vessel_data # None /\ session.waypoints # None

\* "Add Waypoint"
AddWaypoint ==
    /\ op = "none"
    /\ RoutePageShown
    /\ Len(session.waypoints) < MaxWaypoints
    /\ op' = "add_waypoint"
    /\ args' = [none |-> TRUE]
    /\ result' = [none |-> TRUE]
    /\ session' = waypoints_changed(session,
                      Append(session.waypoints,
                             new_waypoint(Len(session.waypoints) + 1)))
    /\ ret' = [status |-> "ok", message |-> "rerun"]

\* "Remove" of waypoint i (counted from 1), where it is offered
RemoveWaypoint ==
    /\ op = "none"
    /\ RoutePageShown
    /\ \E i \in DOMAIN session.waypoints :
        /\ remove_offered(session.waypoints, i)
        /\ args' = [index |-> i]
        /\ session' = waypoints_changed(session, Pop(session.waypoints, i))
    /\ op' = "remove_waypoint"
    /\ result' = [none |-> TRUE]
    /\ ret' = [status |-> "ok", message |-> "rerun"]

\* "Save Route Data" on the manual tab
SaveRouteData ==
    \E dist \in ManualDistances :
        LET route_data == [name |-> "Custom Route", distance |-> dist,
                           waypoints |-> session.waypoints]
        IN  /\ op = "none"
            /\ RoutePageShown
            /\ op' = "save_route_data"
            /\ args' = route_data
            /\ result' = [none |-> TRUE]
            /\ IF Len(session.waypoints) < 2
               THEN /\ ret' = [status |-> "error",
                               message |-> <<"At least 2 waypoints are required for a route.">>]
                    /\ UNCHANGED session
               ELSE /\ session' = [session EXCEPT
                          !.route_data = Route_to_dict(Route(route_data)),
                          !.weather_data = WeatherData_generated(route_data),
                          !.waypoints_in_route = TRUE]
                    /\ ret' = [status |-> "ok",
                               message |-> "Route data saved successfully!"]

\* a file is uploaded, a route of it selected and "Use Selected Route" pressed
UploadRouteFile ==
    \E f \in UploadedRouteFiles :
        LET p == prepare_route_data(f)
        IN  /\ op = "none"
            /\ RoutePageShown
            /\ op' = "upload_route_file"
            /\ result' = [none |-> TRUE]
            /\ IF p.status = "error"
               THEN /\ args' = [file |-> f]
                    /\ ret' = [status |-> "error", message |-> <<"Error loading file: ">> \o p.message]
                    /\ UNCHANGED session
               ELSE IF Len(p.value.routes) = 0
               THEN /\ args' = [file |-> f]
                    /\ ret' = [status |-> "error",
                               message |-> <<"No route data found in the uploaded file.">>]
                    /\ UNCHANGED session
               ELSE \E i \in DOMAIN p.value.routes :
                    LET selected_route_data == selected_record(p.value.routes, i)
                    IN  /\ args' = [file |-> f, selected |-> i]
                        /\ session' = [session EXCEPT
                              !.route_data = Route_to_dict(Route(selected_route_data)),
                              !.weather_data = WeatherData_generated(selected_route_data),
                              !.waypoints_in_route = FALSE]
                        /\ ret' = [status |-> "ok",
                                   message |-> "Route data loaded successfully!"]

\* "Use Selected Sample Route"
UseSampleRoute ==
    \E i \in DOMAIN sample_route_data.routes :
        LET selected_route_data == selected_record(sample_route_data.routes, i)
        IN  /\ op = "none"
            /\ RoutePageShown
            /\ op' = "use_sample_route"
            /\ args' = [selected |-> i]
            /\ result' = [none |-> TRUE]
            /\ session' = [session EXCEPT
                  !.route_data = Route_to_dict(Route(selected_route_data)),
                  !.weather_data = WeatherData_generated(selected_route_data),
                  !.waypoints_in_route = FALSE]
            /\ ret' = [status |-> "ok",
                       message |-> "Sample route data loaded successfully!"]

\* "Clear Route Data", offered while a route is stored; the rerun that
\* follows creates the waypoint list anew
ClearRouteData ==
    /\ op = "none"
    /\ RoutePageShown
    /\ session.route_data # None
    /\ op' = "clear_route_data"
    /\ args' = [none |-> TRUE]
    /\ result' = [none |-> TRUE]
    /\ session' = [session EXCEPT !.route_data = None, !.weather_data = None,
                                  !.waypoints = initial_waypoints,
                                  !.waypoints_in_route = FALSE]
    /\ ret' = [status |-> "ok", message |-> "Route data cleared!"]

----------------------------------------------------------------------------
(* _pages/speed_optimization.py                                            *)

\* a page that asks for the vessel alone
missing_prerequisite_vessel_only(s) ==
    IF s.vessel_data = None
    THEN <<"Please enter vessel specifications first in the Vessel Input page.">>
    ELSE <<>>

\* speed_optimization.py:19-25 (and emissions.py:21-27): the warning the page
\* returns with, <<>> when the session has a vessel and a route
missing_prerequisite(s) ==
    IF s.vessel_data = None
    THEN <<"Please enter vessel specifications first in the Vessel Input page.">>
    ELSE IF s.route_data = None
    THEN <<"Please enter route information first in the Route Optimization page.">>
    ELSE <<>>

\* the factors applied to the session's own dictionary
apply_factors_in_place(session_vessel_data, weather_factor, engine_efficiency) ==
    Val({[vessel_data |-> adjusted, session_vessel_data |-> adjusted] :
         adjusted \in
            {[session_vessel_data EXCEPT !.design_consumption =
                RMul(IF weather_factor > 0
                     THEN RMul(@, RAdd(I(1), Frac(weather_factor, 100)))
                     ELSE @,
                     IF engine_efficiency < 100
                     THEN Frac(100, engine_efficiency)
                     ELSE I(1))]}})

\* speed_optimization.py:112-119: the factors are applied to a copy of the
\* session's vessel dictionary; the dictionary of the session stays
apply_factors(session_vessel_data, weather_factor, engine_efficiency) ==
    Val({[vessel_data |-> adjusted, session_vessel_data |-> session_vessel_data] :
         adjusted \in
            {[session_vessel_data EXCEPT !.design_consumption =
                RMul(IF weather_factor > 0
                     THEN RMul(@, RAdd(I(1), Frac(weather_factor, 100)))
                     ELSE @,
                     IF engine_efficiency < 100
                     THEN Frac(100, engine_efficiency)
                     ELSE I(1))]}})

\* speed_optimization.py:59-77: the speeds the two number inputs accept
speed_range_offered(vessel_max_speed, min_speed, max_speed) ==
    /\ RLe(I(5), min_speed)
    /\ RLe(min_speed, RSub(vessel_max_speed, I(1)))
    /\ RLe(RAdd(min_speed, I(1)), max_speed)
    /\ RLe(max_speed, vessel_max_speed)

\* a run of the page without a button pressed
VisitSpeedPage ==
    /\ op = "none"
    /\ op' = "visit_speed_page"
    /\ args' = [none |-> TRUE]
    /\ result' = [none |-> TRUE]
    /\ ret' = IF missing_prerequisite(session) # <<>>
              THEN [status |-> "warning", message |-> missing_prerequisite(session)]
              ELSE [status |-> "ok", message |-> "page shown"]
    /\ UNCHANGED session

\* "Run Speed Optimization": the run of the page with the button pressed
RunSpeedOptimization ==
    \E fuel_price \in PageFuelPrices, vessel_day_cost \in PageDayCosts,
       range \in PageSpeedRanges, weather_factor \in WeatherFactors,
       engine_efficiency \in EngineEfficiencies :
        /\ op = "none"
        /\ op' = "run_speed_optimization"
        /\ IF missing_prerequisite(session) # <<>>
           THEN /\ args' = [none |-> TRUE]
                /\ result' = [none |-> TRUE]
                /\ ret' = [status |-> "warning",
                           message |-> missing_prerequisite(session)]
                /\ UNCHANGED session
           ELSE /\ speed_range_offered(Get(session.vessel_data, "max_speed", I(25)),
                                       range[1], range[2])
                /\ \E f \in {apply_factors(session.vessel_data, weather_factor,
                                           engine_efficiency)},
                      route_distance \in {Get(session.route_data, "distance", I(5000))} :
                   \E a \in {[vessel_data |-> f.vessel_data,
                               route_distance |-> route_distance,
                               fuel_price |-> fuel_price,
                               vessel_day_cost |-> vessel_day_cost,
                               min_speed |-> range[1], max_speed |-> range[2]]} :
                   \E r \in minimize(a, initial_speed(a.vessel_data),
                                     a.min_speed, a.max_speed) :
                       /\ args' = [session_vessel_data |-> session.vessel_data,
                                   weather_factor |-> weather_factor,
                                   engine_efficiency |-> engine_efficiency,
                                   call |-> a]
                       /\ result' = r
                       /\ session' = [session EXCEPT
                             !.vessel_data = f.session_vessel_data,
                             !.optimization_results =
                                optimization_result(r, a.vessel_data, route_distance,
                                                    fuel_price, vessel_day_cost),
                             !.speed_profile =
                                generate_speed_profile(a.vessel_data, route_distance,
                                                       fuel_price, vessel_day_cost,
                                                       a.min_speed, a.max_speed,
                                                       Frac(1, 2))]
                       /\ ret' = [status |-> "ok",
                                  message |-> "Optimization completed successfully!"]

----------------------------------------------------------------------------
(* _pages/emissions.py                                                     *)

\* "Calculate CII Rating": the function is handed the session's dictionary
RunCiiCalculation ==
    \E annual_distance \in PageAnnualDistances, fuel \in PageAnnualFuels,
       utilization \in PageUtilizations :
        /\ op = "none"
        /\ op' = "run_cii_calculation"
        /\ result' = [none |-> TRUE]
        /\ IF missing_prerequisite(session) # <<>>
           THEN /\ args' = [none |-> TRUE]
                /\ ret' = [status |-> "warning",
                           message |-> missing_prerequisite(session)]
                /\ UNCHANGED session
           ELSE \E cii_results \in
                      {calculate_cii_rating(session.vessel_data, annual_distance,
                                            fuel, utilization)} :
                   /\ args' = [vessel_data |-> session.vessel_data,
                               annual_distance |-> annual_distance,
                               annual_fuel |-> fuel,
                               cargo_capacity_utilization |-> utilization]
                   /\ IF cii_results.status = "error"
                      THEN /\ ret' = cii_results
                           /\ UNCHANGED session
                      ELSE /\ ret' = [status |-> "ok",
                                      message |-> "CII rating calculation completed!"]
                           /\ session' = [session EXCEPT
                                            !.cii_data = cii_results.value]

\* "Generate Compliance Forecast"
RunComplianceForecast ==
    \E speeds \in PageForecastSpeeds, annual_distance \in PageAnnualDistances :
        /\ op = "none"
        /\ op' = "run_compliance_forecast"
        /\ result' = [none |-> TRUE]
        /\ IF missing_prerequisite(session) # <<>>
           THEN /\ args' = [none |-> TRUE]
                /\ ret' = [status |-> "warning",
                           message |-> missing_prerequisite(session)]
                /\ UNCHANGED session
           ELSE /\ RLe(speeds[1], Get(session.vessel_data, "max_speed", I(25)))
                /\ RLe(speeds[2], Get(session.vessel_data, "max_speed", I(25)))
                /\ \E forecast_results \in
                      {calculate_compliance_forecast(session.vessel_data, speeds[1],
                                                     speeds[2], annual_distance)} :
                   /\ args' = [vessel_data |-> session.vessel_data,
                               current_speed |-> speeds[1],
                               proposed_speed |-> speeds[2],
                               annual_distance |-> annual_distance]
                   /\ IF forecast_results.status = "error"
                      THEN /\ ret' = forecast_results
                           /\ UNCHANGED session
                      ELSE /\ ret' = [status |-> "ok",
                                      message |-> "Compliance forecast generated!"]
                           /\ session' = [session EXCEPT
                                            !.compliance_forecast =
                                               forecast_results.value]

\* the caller has taken the returned value; the session stays
Return ==
    /\ op # "none"
    /\ op' = "none"
    /\ args' = [none |-> TRUE]
    /\ result' = [none |-> TRUE]
    /\ ret' = [status |-> "none"]
    /\ UNCHANGED session

Next ==
    \/ OptimizeSpeed
    \/ GenerateSpeedProfile
    \/ GetFuelConsumption
    \/ CalculateFuelConsumption
    \/ CalculateDetailedEmissions
    \/ CalculateEmissions
    \/ CalculateCiiRating
    \/ CalculateComplianceForecast
    \/ SaveVesselData
    \/ UploadVesselFile
    \/ UseSampleVessel
    \/ ClearVesselData
    \/ VisitRoutePage
    \/ AddWaypoint
    \/ RemoveWaypoint
    \/ SaveRouteData
    \/ UploadRouteFile
    \/ UseSampleRoute
    \/ ClearRouteData
    \/ VisitSpeedPage
    \/ RunSpeedOptimization
    \/ RunCiiCalculation
    \/ RunComplianceForecast
    \/ PrepareVesselData
    \/ PrepareRouteData
    \/ ConstructVessel
    \/ GetEngineLoad
    \/ IsSpeedInOptimalRange
    \/ Return

Spec == Init /\ [][Next]_vars

\* the calls of optimize_speed alone, and of generate_speed_profile alone
NextOptimize ==
    \/ OptimizeSpeed
    \/ Return

SpecOptimize == Init /\ [][NextOptimize]_vars

NextProfile ==
    \/ GenerateSpeedProfile
    \/ Return

SpecProfile == Init /\ [][NextProfile]_vars

\* the fuel consumption of a vessel, by the class and by the function
NextVessel ==
    \/ GetFuelConsumption
    \/ CalculateFuelConsumption
    \/ Return

SpecVessel == Init /\ [][NextVessel]_vars

NextEmissions ==
    \/ CalculateDetailedEmissions
    \/ CalculateEmissions
    \/ Return

SpecEmissions == Init /\ [][NextEmissions]_vars

NextCii ==
    \/ CalculateCiiRating
    \/ Return

SpecCii == Init /\ [][NextCii]_vars

NextForecast ==
    \/ CalculateComplianceForecast
    \/ Return

SpecForecast == Init /\ [][NextForecast]_vars

\* the engine load of a constructed vessel
NextEngineLoad ==
    \/ ConstructVessel
    \/ GetEngineLoad
    \/ IsSpeedInOptimalRange
    \/ Return

SpecEngineLoad == Init /\ [][NextEngineLoad]_vars

NextPrepare ==
    \/ PrepareVesselData
    \/ PrepareRouteData
    \/ Return

SpecPrepare == Init /\ [][NextPrepare]_vars

\* the vessel page alone, and the route page with a sample vessel
NextVesselInput ==
    \/ SaveVesselData
    \/ UploadVesselFile
    \/ UseSampleVessel
    \/ ClearVesselData
    \/ Return

SpecVesselInput == Init /\ [][NextVesselInput]_vars

NextRouteInput ==
    \/ UseSampleVessel
    \/ ClearVesselData
    \/ VisitRoutePage
    \/ AddWaypoint
    \/ RemoveWaypoint
    \/ SaveRouteData
    \/ UploadRouteFile
    \/ UseSampleRoute
    \/ ClearRouteData
    \/ Return

SpecRouteInput == Init /\ [][NextRouteInput]_vars

\* the pages that compute from the session's vessel and route
NextPages ==
    \/ UseSampleVessel
    \/ ClearVesselData
    \/ VisitRoutePage
    \/ UseSampleRoute
    \/ ClearRouteData
    \/ VisitSpeedPage
    \/ RunSpeedOptimization
    \/ RunCiiCalculation
    \/ RunComplianceForecast
    \/ Return

SpecPages == Init /\ [][NextPages]_vars

\* the route page and the Speed Optimization page, with their guards
NextGuards ==
    \/ UseSampleVessel
    \/ ClearVesselData
    \/ VisitRoutePage
    \/ AddWaypoint
    \/ SaveRouteData
    \/ UseSampleRoute
    \/ ClearRouteData
    \/ VisitSpeedPage
    \/ RunSpeedOptimization
    \/ Return

SpecGuards == Init /\ [][NextGuards]_vars

----------------------------------------------------------------------------
(* Properties.                                                             *)

\* the input constraints of the optimizer
ValidInputs(a) ==
    /\ RLt(I(0), a.min_speed)
    /\ RLe(a.min_speed, a.max_speed)
    /\ RLt(I(0), a.route_distance)
    /\ RLe(I(0), a.fuel_price)
    /\ RLe(I(0), a.vessel_day_cost)

Optimized == op = "optimize_speed" /\ ret.status = "ok"

ProfileOf(a, st) ==
    generate_speed_profile(a.vessel_data, a.route_distance, a.fuel_price,
                           a.vessel_day_cost, a.min_speed, a.max_speed, st)

RAbs(a) == IF RLt(a, I(0)) THEN RNeg(a) ELSE a

\* the first row of least total_cost (DataFrame.idxmin)
FirstMinRow(p) ==
    CHOOSE i \in DOMAIN p :
        /\ \A j \in DOMAIN p : RLe(p[i].total_cost, p[j].total_cost)
        /\ \A j \in DOMAIN p : j < i => RLt(p[i].total_cost, p[j].total_cost)

\* the speeds of the search grid inside [lo, hi]
GridSpeeds(lo, hi) ==
    {s \in {Frac(k, GridDen) : k \in (lo.w * GridDen)..((hi.w + 1) * GridDen)} :
        RLe(lo, s) /\ RLe(s, hi)}

\* C1: on valid inputs optimize_speed returns a speed inside [minSpeed,
\* maxSpeed] whose total_cost is at most the total_cost of every row of the
\* speed profile over the same range, whatever the step.
C1_OptimumNotAboveProfile ==
    (op = "optimize_speed" /\ ValidInputs(args)) =>
        /\ ret.status = "ok"
        /\ RLe(args.min_speed, ret.value.optimal_speed)
        /\ RLe(ret.value.optimal_speed, args.max_speed)
        /\ \A st \in Steps :
              LET p == ProfileOf(args, st)
              IN  \A i \in DOMAIN p :
                    RLe(ret.value.total_cost, p[i].total_cost)

\* C2: optimize_speed fails, returning nothing, whenever minSpeed <= 0,
\* maxSpeed < minSpeed, distance <= 0, fuelPrice < 0 or dayRate < 0.
C2_InvalidInputFailsFast ==
    (op = "optimize_speed" /\ ~ValidInputs(args)) => ret.status = "error"

\* C3: the profile's rows have strictly increasing speeds, start at minSpeed,
\* are step apart up to the last row, never exceed maxSpeed, and the last row
\* is at maxSpeed.
C3_ProfileEndsAtMaxSpeed ==
    (op = "generate_speed_profile" /\ RLt(I(0), args.min_speed)
        /\ RLe(args.min_speed, args.max_speed)) =>
        LET p == ret.value
            n == Cardinality(DOMAIN p)
        IN  /\ n >= 1
            /\ p[1].speed = args.min_speed
            /\ \A i \in 1..(n - 1) : RLt(p[i].speed, p[i + 1].speed)
            /\ \A i \in 1..(n - 2) :
                  p[i + 1].speed = RAdd(p[i].speed, args.step)
            /\ \A i \in 1..n : RLe(p[i].speed, args.max_speed)
            /\ p[n].speed = args.max_speed

\* C4: when two or more speeds of [minSpeed, maxSpeed] have the least total
\* cost, optimize_speed returns the lowest of them.
C4_TieBreakLowestSpeed ==
    (Optimized /\ ValidInputs(args)) =>
        LET f(s) == objective_function(s, args.vessel_data, args.route_distance,
                                       args.fuel_price, args.vessel_day_cost)
            g == GridSpeeds(args.min_speed, args.max_speed)
            least == {s \in g : \A t \in g : RLe(f(s), f(t))}
        IN  Cardinality(least) >= 2 =>
                \A s \in least : RLe(ret.value.optimal_speed, s)

\* C5: the design-speed baseline of the result is what the pipeline of the
\* optimum gives at designSpeed, each saving is baseline minus optimum, and
\* the three savings are 0 when the optimal speed is the design speed.
C5_BaselineSamePipeline ==
    Optimized =>
        LET v == ret.value
            c == v.comparison
            b == optimum_point([x |-> c.design_speed, success |-> TRUE],
                               args.vessel_data, args.route_distance,
                               args.fuel_price, args.vessel_day_cost)
        IN  /\ c.design_transit_time = b.transit_time
            /\ c.design_fuel_consumption = b.total_fuel_consumption
            /\ c.design_cost = b.total_cost
            /\ c.design_emissions = b.emissions
            /\ v.fuel_savings =
                  RSub(c.design_fuel_consumption, v.total_fuel_consumption)
            /\ v.cost_savings = RSub(c.design_cost, v.total_cost)
            /\ v.co2_reduction =
                  RSub(c.design_emissions["CO2"], v.emissions["CO2"])
            /\ v.optimal_speed = c.design_speed =>
                  /\ v.fuel_savings = I(0)
                  /\ v.cost_savings = I(0)
                  /\ v.co2_reduction = I(0)

C5_Witness ==
    /\ Optimized
    /\ ValidInputs(args)
    /\ RLt(args.min_speed, args.max_speed)
    /\ ret.value.optimal_speed = ret.value.comparison.design_speed
    /\ ret.value.cost_savings = I(0)

\* C6: when the minimizer has not converged, optimize_speed fails instead of
\* returning a result built from the speed the minimizer stopped at.
C6_NonConvergenceSurfaced ==
    (op = "optimize_speed" /\ "success" \in DOMAIN result /\ ~result.success)
        => ret.status = "error"

\* C7: designSpeed 20, designConsumption 180, maxSpeed 25, distance 8200,
\* fuelPrice 600, dayRate 25000, bounds [12, 24]: the optimal speed is below
\* 20 and fuel_savings and cost_savings are positive.
EndToEndArgs ==
    [vessel_data |-> [design_speed |-> I(20), design_consumption |-> I(180),
                      max_speed |-> I(25)],
     route_distance |-> I(8200), fuel_price |-> I(600),
     vessel_day_cost |-> I(25000), min_speed |-> I(12), max_speed |-> I(24)]

C7_EndToEndSlowSteaming ==
    (op = "optimize_speed" /\ args = EndToEndArgs) =>
        /\ ret.status = "ok"
        /\ RLt(ret.value.optimal_speed, I(20))
        /\ RLt(I(0), ret.value.fuel_savings)
        /\ RLt(I(0), ret.value.cost_savings)

C7_Witness ==
    /\ Optimized
    /\ args = EndToEndArgs
    /\ result.success
    /\ ret.value.optimal_speed = I(12)

\* C8: the speed of the profile's least-cost row is within one step of the
\* optimal speed, for the same inputs and bounds.
C8_ProfileMinimumNearOptimum ==
    (Optimized /\ ValidInputs(args)) =>
        \A st \in Steps :
            LET p == ProfileOf(args, st)
            IN  RLe(RAbs(RSub(p[FirstMinRow(p)].speed, ret.value.optimal_speed)),
                    st)

\* C9: the daily fuel consumption is designConsumption * (speed /
\* designSpeed)^3: designConsumption at the design speed, 0.125 of it at half
\* the speed and 1.728 times it at 1.2 times the speed; the Vessel method and
\* calculate_fuel_consumption on the vessel's dictionary agree.
C9_CubicLaw ==
    /\ op = "get_fuel_consumption" =>
          LET v == Vessel(args.data)
              c == ret.value
          IN  /\ RMul(c, RPow3(v.design_speed)) =
                    RMul(v.design_consumption, RPow3(args.speed))
              /\ args.speed = v.design_speed => c = v.design_consumption
              /\ Vessel_get_fuel_consumption(v, RDiv(args.speed, I(2))) =
                    RMul(Frac(125, 1000), c)
              /\ Vessel_get_fuel_consumption(v, RMul(Frac(12, 10), args.speed)) =
                    RMul(Frac(1728, 1000), c)
              /\ calculate_fuel_consumption(args.speed, Vessel_to_dict(v)) = c
    /\ op = "calculate_fuel_consumption" =>
          LET ds == Get(args.vessel_data, "design_speed", I(20))
              dc == Get(args.vessel_data, "design_consumption", I(180))
              c == ret.value
          IN  /\ RMul(c, RPow3(ds)) = RMul(dc, RPow3(args.speed))
              /\ args.speed = ds => c = dc
              /\ calculate_fuel_consumption(RDiv(args.speed, I(2)),
                                            args.vessel_data) =
                    RMul(Frac(125, 1000), c)
              /\ calculate_fuel_consumption(RMul(Frac(12, 10), args.speed),
                                            args.vessel_data) =
                    RMul(Frac(1728, 1000), c)

C9_Witness ==
    /\ op = "get_fuel_consumption"
    /\ "design_consumption" \in DOMAIN args.data
    /\ args.speed = RDiv(args.data.design_speed, I(2))
    /\ ret.value = RMul(Frac(125, 1000), args.data.design_consumption)
    /\ ret.value # I(0)

\* the factor table of the emissions model, g per ton of fuel
FactorTable(fuel_type, pollutant) ==
    CASE fuel_type = "MGO" ->
            (CASE pollutant = "CO2" -> 3206000 [] pollutant = "SOx" -> 2000
               [] pollutant = "NOx" -> 60000 [] pollutant = "PM" -> 1000)
      [] fuel_type = "LSFO" ->
            (CASE pollutant = "CO2" -> 3114000 [] pollutant = "SOx" -> 20000
               [] pollutant = "NOx" -> 57000 [] pollutant = "PM" -> 1800)
      [] fuel_type = "HFO" ->
            (CASE pollutant = "CO2" -> 3114000 [] pollutant = "SOx" -> 70000
               [] pollutant = "NOx" -> 57000 [] pollutant = "PM" -> 2400)
      [] OTHER ->
            (CASE pollutant = "CO2" -> 3114000 [] pollutant = "SOx" -> 10000
               [] pollutant = "NOx" -> 57000 [] pollutant = "PM" -> 1400)

\* C10: calculate_detailed_emissions returns exactly CO2, SOx, NOx and PM,
\* each fuel * factor / 1,000,000 by the fixed table; a fuel type outside the
\* table gives the VLSFO result; doubling the fuel doubles every pollutant.
C10_DetailedEmissions ==
    op = "calculate_detailed_emissions" =>
        LET fuel == args.fuel_consumption
            ft == args.fuel_type
        IN  /\ ret.status = "ok"
            /\ DOMAIN ret.value = {"CO2", "SOx", "NOx", "PM"}
            /\ \A t \in DOMAIN ret.value :
                  /\ ret.value[t] =
                        RMul(fuel, Frac(FactorTable(ft, t), 1000000))
                  /\ calculate_detailed_emissions(RMul(I(2), fuel), ft)[t] =
                        RMul(I(2), ret.value[t])
            /\ ft \notin {"VLSFO", "MGO", "LSFO", "HFO"} =>
                  ret.value = calculate_detailed_emissions(fuel, "VLSFO")

C10_Witness ==
    /\ op = "calculate_detailed_emissions"
    /\ args.fuel_type = "UNKNOWN"
    /\ args.fuel_consumption = I(100)
    /\ ret.value["SOx"] = I(1)
    /\ ret.value["PM"] = Frac(14, 100)

\* C11: calculate_emissions with its default factors returns exactly CO2, SOx
\* and NOx, each fuel * factor / 1e6 with the flat factors 3114000, 54000 and
\* 57000; its CO2 and NOx are those of calculate_detailed_emissions for VLSFO,
\* and for every non-zero fuel consumption its SOx is not (at zero fuel every
\* amount is 0 in both).
C11_SimplifiedEmissions ==
    (op = "calculate_emissions" /\ ret.status = "ok") =>
        LET fuel == args.fuel_consumption
            detailed == calculate_detailed_emissions(fuel, "VLSFO")
        IN  /\ DOMAIN ret.value = {"CO2", "SOx", "NOx"}
            /\ ret.value["CO2"] = RMul(fuel, Frac(3114000, 1000000))
            /\ ret.value["SOx"] = RMul(fuel, Frac(54000, 1000000))
            /\ ret.value["NOx"] = RMul(fuel, Frac(57000, 1000000))
            /\ ret.value["CO2"] = detailed["CO2"]
            /\ ret.value["NOx"] = detailed["NOx"]
            /\ (fuel # I(0)) => ret.value["SOx"] # detailed["SOx"]

C11_Witness ==
    /\ op = "calculate_emissions"
    /\ args.fuel_consumption = I(100)
    /\ ret.value["SOx"] = Frac(54, 10)
    /\ calculate_detailed_emissions(I(100), "VLSFO")["SOx"] = I(1)

\* the utilization a call of calculate_cii_rating computes with
UtilizationOf(a) ==
    IF "cargo_capacity_utilization" \in DOMAIN a
    THEN a.cargo_capacity_utilization ELSE Frac(7, 10)

\* the reference AER of the spec's table
ReferenceTable(vessel_data) ==
    LET t == IF "type" \in DOMAIN vessel_data THEN vessel_data.type
             ELSE "Container Ship"
    IN  CASE t = "Container Ship" -> Frac(115, 10)
          [] t = "Bulk Carrier" -> I(7)
          [] t = "Oil Tanker" -> Frac(51, 10)
          [] t = "Gas Carrier" -> Frac(89, 10)
          [] t = "General Cargo" -> Frac(153, 10)
          [] OTHER -> I(10)

CiiReturned == op = "calculate_cii_rating" /\ ret.status = "ok"

\* C12: a result of calculate_cii_rating has co2_emissions = annual_fuel *
\* 3.114, transport_work = deadweight * annual_distance * utilization (0.7
\* when not given), aer = co2_emissions * 1e6 / transport_work, reference_aer
\* from the per-type table (10.0 for any other type) and cii_ratio = aer /
\* reference_aer.
C12_CiiFormulas ==
    CiiReturned =>
        LET dw == Get(args.vessel_data, "deadweight", I(100000))
            co2 == RMul(args.annual_fuel, Frac(3114, 1000))
            tw == RMul(dw, RMul(args.annual_distance, UtilizationOf(args)))
            ref == ReferenceTable(args.vessel_data)
        IN  /\ ret.value.co2_emissions = co2
            /\ ret.value.transport_work = tw
            /\ RMul(ret.value.aer, tw) = RMul(co2, I(1000000))
            /\ ret.value.reference_aer = ref
            /\ RMul(ret.value.cii_ratio, ref) = ret.value.aer

C12_Witness ==
    /\ CiiReturned
    /\ args.vessel_data = [type |-> "Ferry", deadweight |-> I(100000)]
    /\ "cargo_capacity_utilization" \notin DOMAIN args
    /\ args.annual_fuel = I(150)
    /\ ret.value.transport_work = I(70000000)
    /\ ret.value.reference_aer = I(10)
    /\ ret.value.cii_ratio = Frac(4671, 7000)

\* C13: the rating of a result of calculate_cii_rating is the band of its
\* cii_ratio: A below 0.86, B from 0.86 to below 0.93, C from 0.93 to below
\* 1.03, D from 1.03 to below 1.10, E from 1.10 on; a boundary value belongs
\* to the worse band.
C13_RatingBands ==
    CiiReturned =>
        LET r == ret.value.cii_ratio
            rating == ret.value.rating
        IN  /\ rating \in {"A", "B", "C", "D", "E"}
            /\ rating = "A" <=> RLt(r, Frac(86, 100))
            /\ rating = "B" <=> RLe(Frac(86, 100), r) /\ RLt(r, Frac(93, 100))
            /\ rating = "C" <=> RLe(Frac(93, 100), r) /\ RLt(r, Frac(103, 100))
            /\ rating = "D" <=> RLe(Frac(103, 100), r) /\ RLt(r, Frac(110, 100))
            /\ rating = "E" <=> RLe(Frac(110, 100), r)

C13_Witness ==
    /\ CiiReturned
    /\ ret.value.cii_ratio = Frac(103, 100)
    /\ ret.value.rating = "D"

\* C14: calculate_cii_rating fails whenever deadweight <= 0, annual_distance
\* <= 0 or utilization <= 0.
C14_NonPositiveTransportWorkFails ==
    (/\ op = "calculate_cii_rating"
     /\ \/ RLe(Get(args.vessel_data, "deadweight", I(100000)), I(0))
        \/ RLe(args.annual_distance, I(0))
        \/ RLe(UtilizationOf(args), I(0)))
    => ret.status = "error"

ForecastReturned == op = "calculate_compliance_forecast" /\ ret.status = "ok"

\* the cubic law, written out: design_consumption * speed^3 / design_speed^3
CubicFuel(vessel_data, speed) ==
    RDiv(RMul(Get(vessel_data, "design_consumption", I(180)), RPow3(speed)),
         RPow3(Get(vessel_data, "design_speed", I(20))))

\* fuelConsumption(speed) * annualDistance / (speed * 24)
AnnualFuelOf(a, speed) ==
    RDiv(RMul(CubicFuel(a.vessel_data, speed), a.annual_distance),
         RMul(speed, I(24)))

\* C15: a forecast has, for each of the two speeds, annual_fuel =
\* fuelConsumption(speed) * annual_distance / (speed * 24) with the CII ratio
\* and rating of that annual fuel, the speed echoed, and fuel_savings =
\* current - proposed annual fuel, emission_savings = current - proposed CO2
\* emissions, percentage_reduction = fuel_savings / current annual fuel * 100.
C15_ForecastFormulas ==
    ForecastReturned =>
        LET v == ret.value
            cf == AnnualFuelOf(args, args.current_speed)
            pf == AnnualFuelOf(args, args.proposed_speed)
            ccii == calculate_cii_rating(args.vessel_data,
                        args.annual_distance, cf, Frac(7, 10)).value
            pcii == calculate_cii_rating(args.vessel_data,
                        args.annual_distance, pf, Frac(7, 10)).value
        IN  /\ v.current_scenario.speed = args.current_speed
            /\ v.proposed_scenario.speed = args.proposed_speed
            /\ v.current_scenario.annual_fuel = cf
            /\ v.proposed_scenario.annual_fuel = pf
            /\ v.current_scenario.cii_ratio = ccii.cii_ratio
            /\ v.current_scenario.cii_rating = ccii.rating
            /\ v.proposed_scenario.cii_ratio = pcii.cii_ratio
            /\ v.proposed_scenario.cii_rating = pcii.rating
            /\ v.savings.fuel_savings = RSub(cf, pf)
            /\ v.savings.emission_savings =
                   RSub(RMul(cf, Frac(3114, 1000)), RMul(pf, Frac(3114, 1000)))
            /\ RMul(v.savings.percentage_reduction, cf) =
                   RMul(v.savings.fuel_savings, I(100))

C15_Witness ==
    /\ ForecastReturned
    /\ args.vessel_data = [type |-> "Container Ship", deadweight |-> I(100000),
                           design_speed |-> I(20),
                           design_consumption |-> I(180)]
    /\ args.current_speed = I(18)
    /\ args.proposed_speed = I(15)
    /\ args.annual_distance = I(1000)
    /\ ret.value.current_scenario.annual_fuel = Frac(30375, 100)
    /\ ret.value.proposed_scenario.annual_fuel = Frac(2109375, 10000)
    /\ ret.value.savings.percentage_reduction = Frac(275, 9)

\* C16: calculate_compliance_forecast fails whenever current_speed <= 0 or
\* proposed_speed <= 0.
C16_NonPositiveSpeedFails ==
    (/\ op = "calculate_compliance_forecast"
     /\ \/ RLe(args.current_speed, I(0))
        \/ RLe(args.proposed_speed, I(0)))
    => ret.status = "error"

\* C17: when the current scenario's annual fuel is 0 the call raises an error:
\* no forecast is returned, so none carries a percentage_reduction that comes
\* from a division by zero.
C17_ZeroCurrentFuelSignals ==
    /\ (/\ op = "calculate_compliance_forecast"
        /\ args.current_speed # I(0)
        /\ Get(args.vessel_data, "design_speed", I(20)) # I(0)
        /\ AnnualFuelOf(args, args.current_speed) = I(0))
       => ret.status = "error"
    /\ ForecastReturned =>
        /\ ret.value.current_scenario.annual_fuel # I(0)
        /\ IsFinite(ret.value.savings.percentage_reduction)

C17_Witness ==
    /\ op = "calculate_compliance_forecast"
    /\ args.vessel_data = [deadweight |-> I(100000), design_speed |-> I(20),
                           design_consumption |-> I(0)]
    /\ args.current_speed = I(18)
    /\ args.proposed_speed = I(15)
    /\ args.annual_distance = I(1000)
    /\ ret = [status |-> "error", error |-> "ZeroDivisionError",
              at |-> "emissions.py:165"]

\* C18: for 0 < proposed_speed < current_speed, design_consumption > 0 and
\* annual_distance > 0, a forecast has fuel_savings > 0 and
\* emission_savings > 0, and its proposed annual fuel is the current one
\* times (proposed_speed / current_speed)^2.
C18_SlowerSavesFuel ==
    (/\ ForecastReturned
     /\ RLt(I(0), args.proposed_speed)
     /\ RLt(args.proposed_speed, args.current_speed)
     /\ RLt(I(0), Get(args.vessel_data, "design_consumption", I(180)))
     /\ RLt(I(0), args.annual_distance))
    => /\ RLt(I(0), ret.value.savings.fuel_savings)
       /\ RLt(I(0), ret.value.savings.emission_savings)
       /\ RMul(ret.value.proposed_scenario.annual_fuel,
               RMul(args.current_speed, args.current_speed)) =
          RMul(ret.value.current_scenario.annual_fuel,
               RMul(args.proposed_speed, args.proposed_speed))

\* C19: a vessel record stored in the session satisfies
\* max_speed >= design_speed > 0.
C19_StoredVesselValid ==
    session.vessel_data # None =>
        /\ RLt(I(0), session.vessel_data.design_speed)
        /\ RLe(session.vessel_data.design_speed, session.vessel_data.max_speed)

\* C20: a route stored in the session has at least 2 waypoints.
C20_StoredRouteHasTwoWaypoints ==
    session.route_data # None => Len(session.route_data.waypoints) >= 2

----------------------------------------------------------------------------
\* a message holds the piece
Contains(message, piece) == \E i \in DOMAIN message : message[i] = piece

Prepared == op \in {"prepare_vessel_data", "prepare_route_data"}

\* the file handed over has none of the supported extensions
Unsupported(f) == f # None /\ ~\E e \in Extensions : EndsWith(f.name, e)

\* C21: prepare_vessel_data and prepare_route_data, handed a file whose name
\* ends in none of .csv, .xlsx, .json, raise a ValueError whose message holds
\* 'Unsupported file format' and the file name, and return no data.
C21_UnsupportedFormatRaisesValueError ==
    (Prepared /\ Unsupported(args.uploaded_file)) =>
        /\ ret.status = "error"
        /\ ret.error = "ValueError"
        /\ Contains(ret.message, "Unsupported file format: ")
        /\ Contains(ret.message,
                    args.uploaded_file.name.stem \o args.uploaded_file.name.ext)

----------------------------------------------------------------------------
\* the cube of a speed
Cube(speed) == IF IsRoot(speed) THEN speed.cube ELSE RPow3(speed)

\* C23: is_speed_in_optimal_range(speed) is true exactly when
\* 70 <= get_engine_load(speed) <= 85, where get_engine_load(speed) is
\* 100 * (speed / maxSpeed)^3: 100 at maxSpeed, 12.5 at half of it.
C23_OptimalRangeByLoad ==
    /\ op = "get_engine_load" =>
          LET v == Vessel(args.data)
          IN  /\ v.max_speed # I(0) => ret.status = "ok"
              /\ ret.status = "ok" =>
                    /\ RMul(ret.value, RPow3(v.max_speed)) =
                          RMul(I(100), Cube(args.speed))
                    /\ args.speed = v.max_speed => ret.value = I(100)
                    /\ args.speed = RDiv(v.max_speed, I(2)) =>
                          ret.value = Frac(25, 2)
    /\ op = "is_speed_in_optimal_range" =>
          LET load == Vessel_get_engine_load(Vessel(args.data), args.speed)
          IN  /\ ret.status = load.status
              /\ ret.status = "ok" =>
                    (ret.value <=> /\ RLe(I(70), load.value)
                                   /\ RLe(load.value, I(85)))

C23_Witness ==
    /\ op = "is_speed_in_optimal_range"
    /\ Vessel(args.data).max_speed = I(25)
    /\ args.speed = I(23)
    /\ ret = Returns(TRUE)

\* C24: every speed between optimal_speed_min and optimal_speed_max of a
\* constructed Vessel is in the optimal range, and 0.9 * optimal_speed_min and
\* 1.1 * optimal_speed_max are not: the derived speed range and the range
\* check by engine load agree.
C24_SpeedRangeAgreesWithLoadRange ==
    op = "is_speed_in_optimal_range" =>
        LET v == Vessel(args.data)
        IN  /\ (/\ RLe(v.optimal_speed_min.cube, Cube(args.speed))
                 /\ RLe(Cube(args.speed), v.optimal_speed_max.cube)) =>
                    ret = Returns(TRUE)
            /\ args.speed = Scaled(v.optimal_speed_min, Frac(9, 10)) =>
                    ret = Returns(FALSE)
            /\ args.speed = Scaled(v.optimal_speed_max, Frac(11, 10)) =>
                    ret = Returns(FALSE)

\* C25: a Vessel derives at construction specific_fuel_consumption as a step
\* function of year_built (>= 2015: 175, 2000..2014: 185, < 2000: 195),
\* optimal_load_min 70, optimal_load_max 85 and optimal_speed_min/max as
\* designSpeed * (load / 100)^(1/3), so that
\* optimal_speed_min < optimal_speed_max < designSpeed.
C25_DerivedParameters ==
    op = "Vessel" =>
        LET v == ret.value
            y == Get(args.data, "year_built", 2010)
            ds == Get(args.data, "design_speed", I(20))
        IN  /\ y >= 2015 => v.specific_fuel_consumption = 175
            /\ (2000 <= y /\ y <= 2014) => v.specific_fuel_consumption = 185
            /\ y < 2000 => v.specific_fuel_consumption = 195
            /\ v.optimal_load_min = 70
            /\ v.optimal_load_max = 85
            /\ v.optimal_speed_min.cube = RMul(RPow3(ds), Frac(70, 100))
            /\ v.optimal_speed_max.cube = RMul(RPow3(ds), Frac(85, 100))
            /\ RLt(v.optimal_speed_min.cube, v.optimal_speed_max.cube)
            /\ RLt(v.optimal_speed_max.cube, RPow3(ds))

----------------------------------------------------------------------------
\* C26: every row of generate_speed_profile has transit_time = distance /
\* (speed * 24), daily_fuel by the cubic law, total_fuel = daily_fuel *
\* transit_time, fuel_cost = total_fuel * fuelPrice, time_cost = transit_time *
\* dayRate and total_cost = fuel_cost + time_cost, the value calculate_cost
\* and the objective of optimize_speed give at that speed.
C26_ProfileRowCosts ==
    op = "generate_speed_profile" =>
        \A i \in DOMAIN ret.value :
            LET r == ret.value[i]
                ds == Get(args.vessel_data, "design_speed", I(20))
                dc == Get(args.vessel_data, "design_consumption", I(180))
            IN  /\ r.transit_time = RDiv(args.route_distance, RMul(r.speed, I(24)))
                /\ RMul(r.daily_fuel, RPow3(ds)) = RMul(dc, RPow3(r.speed))
                /\ r.total_fuel = RMul(r.daily_fuel, r.transit_time)
                /\ r.fuel_cost = RMul(r.total_fuel, args.fuel_price)
                /\ r.time_cost = RMul(r.transit_time, args.vessel_day_cost)
                /\ r.total_cost = RAdd(r.fuel_cost, r.time_cost)
                /\ r.total_cost = calculate_cost(r.total_fuel, args.fuel_price,
                                                 r.transit_time, args.vessel_day_cost)
                /\ r.total_cost = objective_function(r.speed, args.vessel_data,
                                      args.route_distance, args.fuel_price,
                                      args.vessel_day_cost)

C26_Witness ==
    /\ op = "generate_speed_profile"
    /\ Len(ret.value) >= 3
    /\ \E i \in DOMAIN ret.value :
          /\ RLt(I(0), ret.value[i].fuel_cost)
          /\ RLt(I(0), ret.value[i].time_cost)
          /\ RLt(ret.value[i].fuel_cost, ret.value[i].total_cost)

----------------------------------------------------------------------------
\* the design speed lies inside the bounds of the search
DesignSpeedInBounds(a) ==
    LET ds == Get(a.vessel_data, "design_speed", I(20))
    IN  /\ RLe(a.min_speed, ds)
        /\ RLe(ds, a.max_speed)
        /\ RLt(I(0), a.route_distance)
        /\ RLe(I(0), a.fuel_price)
        /\ RLe(I(0), a.vessel_day_cost)

----------------------------------------------------------------------------
\* the place of a rating letter, A the best
Rank(rating) ==
    CASE rating = "A" -> 1 [] rating = "B" -> 2 [] rating = "C" -> 3
      [] rating = "D" -> 4 [] rating = "E" -> 5

\* the transport work of a forecast: deadweight * annual_distance * 0.7
ForecastTransportWork(a) ==
    RMul(RMul(Get(a.vessel_data, "deadweight", I(100000)), a.annual_distance),
         default_utilization)

\* C30: for a vessel and annual distance with positive transport work and
\* 0 < proposedSpeed <= currentSpeed, the forecast's proposed cii_ratio is not
\* greater than the current one and its proposed rating letter is not worse.
C30_SlowerNeverRatesWorse ==
    (/\ ForecastReturned
     /\ RLt(I(0), args.proposed_speed)
     /\ RLe(args.proposed_speed, args.current_speed)
     /\ RLt(I(0), ForecastTransportWork(args)))
    => /\ RLe(ret.value.proposed_scenario.cii_ratio,
              ret.value.current_scenario.cii_ratio)
       /\ Rank(ret.value.proposed_scenario.cii_rating) <=
              Rank(ret.value.current_scenario.cii_rating)

\* C27: on the manual route tab the session's waypoint list, once the page has
\* created it, always holds at least 2 waypoints: a Remove button is offered
\* only while the list has more than 2 entries, and right after "Clear Route
\* Data" the list is the initial one of 2 entries.
C27_AtLeastTwoWaypoints ==
    session.waypoints # None =>
        /\ Len(session.waypoints) >= 2
        /\ \A i \in DOMAIN session.waypoints :
              remove_offered(session.waypoints, i) => Len(session.waypoints) > 2
        /\ op = "clear_route_data" => session.waypoints = initial_waypoints

\* a waypoint was removed and 2 are left
C27_Witness ==
    /\ op = "remove_waypoint"
    /\ Len(session.waypoints) = 2


\* a step that writes the session's route_data: a run of the route page that
\* gets past its guard, or any step after which the route differs
RouteDataWritten ==
    \/ /\ op' \in {"visit_route_page", "add_waypoint", "remove_waypoint",
                    "save_route_data", "upload_route_file", "use_sample_route",
                    "clear_route_data"}
       /\ ret'.status = "ok"
    \/ session'.route_data # session.route_data

\* a step that writes optimization_results or speed_profile
ResultsWritten ==
    \/ /\ op' = "run_speed_optimization"
       /\ ret'.status = "ok"
    \/ session'.optimization_results # session.optimization_results
    \/ session'.speed_profile # session.speed_profile

\* C28: in every step of a session, route_data is written only when the
\* session holds a vessel, optimization_results and speed_profile are written
\* only by a run of the Speed Optimization page in a session that holds a
\* vessel and a route, and a run that ends with the warning of a missing
\* prerequisite leaves every session key as it was.
C28_WritesNeedPrerequisites ==
    [][/\ RouteDataWritten => session.vessel_data # None
       /\ ResultsWritten =>
             /\ op' = "run_speed_optimization"
             /\ session.vessel_data # None
             /\ session.route_data # None
       /\ ret'.status = "warning" => session' = session]_vars

\* a run of the Speed Optimization page has stored its results, and a later
\* run without a route has returned with the warning
C28_Witness ==
    /\ op = "run_speed_optimization"
    /\ ret.status = "warning"
    /\ session.vessel_data # None
    /\ session.route_data = None
    /\ session.optimization_results # None
    /\ session.speed_profile # None


\* the runs that hand the session's vessel dictionary, or a copy of it, to
\* optimize_speed, generate_speed_profile, calculate_cii_rating or
\* calculate_compliance_forecast
CoreRuns == {"run_speed_optimization", "run_cii_calculation", "run_compliance_forecast"}

\* C22: a run that calls optimize_speed and generate_speed_profile (the Speed
\* Optimization page), calculate_cii_rating or calculate_compliance_forecast
\* (the emissions page) leaves the vessel and the route of the session as they
\* were, design_consumption included, whatever the weather factor and the
\* engine efficiency; the consumption a run of the Speed Optimization page
\* computes with is the session's design_consumption times
\* (1 + weather_factor / 100) times (100 / engine_efficiency) of that run
\* alone, so that repeated runs do not compound.
C22_RunsLeaveVesselData ==
    [][op' \in CoreRuns =>
         /\ session'.vessel_data = session.vessel_data
         /\ session'.route_data = session.route_data
         /\ session'.waypoints = session.waypoints
         /\ (op' = "run_speed_optimization" /\ ret'.status = "ok") =>
               /\ args'.call.vessel_data.design_consumption =
                     RMul(RMul(session.vessel_data.design_consumption,
                               RAdd(I(1), Frac(args'.weather_factor, 100))),
                          Frac(100, args'.engine_efficiency))
               /\ \A k \in DOMAIN session.vessel_data \ {"design_consumption"} :
                     args'.call.vessel_data[k] = session.vessel_data[k]]_vars

\* the Speed Optimization page has run with a weather factor and a reduced
\* engine efficiency in a session where the emissions page has stored a
\* rating and a forecast, and the session still holds the sample vessel
C22_Witness ==
    /\ op = "run_speed_optimization"
    /\ ret.status = "ok"
    /\ args.weather_factor > 0
    /\ args.engine_efficiency < 100
    /\ session.cii_data # None
    /\ session.compliance_forecast # None
    /\ session.vessel_data.design_consumption = I(180)
    /\ args.call.vessel_data.design_consumption = Frac(495, 2)

====
